---------------------------- MODULE Spec2Model ----------------------------
(***************************************************************************)
(* Worker AI core: the two connection handlers of the repository.         *)
(*                                                                         *)
(*   - the v1 handler of services/worker-ai/worker.py (credit window,     *)
(*     auto-tuning), variables without prefix, actions W_...;              *)
(*   - the handler of services/worker-ai/src/server/connection.py with    *)
(*     its codec, model pool, load job, keep-alive task and session        *)
(*     service, one connection, actions S_....                            *)
(*                                                                         *)
(* Every action is one pass of the handler from one suspension point      *)
(* (an await) to the next.                                                 *)
(***************************************************************************)
EXTENDS Integers, Sequences, FiniteSets, TLC

\* ------------------------------------------------------------------ bounds
\* Envelopes a connection reads before the model stops feeding it.
MaxRx == 10
\* Envelopes a connection of the src/server handler reads.
MaxConnRx == 6
\* New tracks one frame can start (detections that match no track).
MaxNewTracks == 2
\* Frames the client writes back-to-back, before it reads any reply.
BurstLen == 3
\* Messages handled by the two connections of the shared-directory model.
MaxTwoRx == 5
\* Longest session_id, in characters, and most segment files of one session,
\* of the session_id model.
MaxIdLen == 3
MaxIdSegs == 2
\* Records one session directory receives, and ticks of the wall clock
\* meanwhile.
MaxWrites == 3
MaxClock == 2
\* Records a session directory may hold when a finalized session is opened
\* again.
MaxReopenRecords == 1
\* Dumps of a JSON file, and write() calls one dump takes.
MaxDumps == 4
DumpChunks == 2
\* Tracker updates of one session, detections of one frame, and the frames
\* a track outlives its last detection (BoTSORTTracker.max_age, read from the
\* tracker configuration; 30 by default).
MaxTrackFrames == 4
MaxDets == 2
max_age == 2
MaxPoolInits == 2        \* Init messages per connection of the pool model
MaxLoadThreads == 2      \* model loads running in threads at once, per path
MaxWnLog == 4            \* messages written by the worker_new.py handler
MaxIdleConns == 4        \* connections the worker.py process accepts in all
MaxTuneResults == 12     \* Results of one connection in the auto-tuning model
MaxIsoRx == 3            \* messages handled per connection in the isolation model
MaxSockWrites == 4       \* write_frame calls on one socket
MaxPayloadLen == 2       \* bytes of an encoded message

\* ------------------------------------------------------- program constants
initial_window_size == 4
max_recent_latencies == 10
high_latency_threshold_ms == 100
low_latency_threshold_ms == 30
min_window_size == 2
max_window_size == 16
min_tuning_samples == 5
window_increase_step == 2
PROTOCOL_VERSION == 1
min_hits == 3

\* ------------------------------------------------------------ wire schema
Versions == {1, 2}
MsgTypes == {"MT_UNKNOWN", "MT_INIT", "MT_FRAME", "MT_END", "MT_HEARTBEAT"}
\* The variant an envelope carries: req.init, req.frame, req.end, hb, or
\* nothing the handlers route (no oneof set, or a Response).
Variants == {"init", "frame", "end", "hb", "none"}
\* Init.model: two loadable paths, one that cannot be loaded, and the empty one.
ModelPaths == {"m1", "m2"}
InitModels == ModelPaths \cup {"bad", ""}
\* Frame contents: "ok" decodes; "planes" is raw data whose planes[] sizes do
\* not add up to len(data) but is otherwise decodable; "badfmt" names an
\* unknown pixel format / codec; "corrupt" makes the decoder fail.
FrameKinds == {"ok", "planes", "badfmt", "corrupt"}
\* Frame.session_id as sent ("" is absent, "../x" has a path separator).
SessionIds == {"", "s1", "s2", "../x"}
\* Total latency (ms) the inference reports for a frame.
Latencies == {10, 200}

Envelopes ==
    [ver : Versions, mt : MsgTypes, var : {"init"}, model : InitModels, fk : {"-"}, sid : {"-"}]
    \cup [ver : Versions, mt : MsgTypes, var : {"frame"}, model : {"-"}, fk : FrameKinds, sid : SessionIds]
    \cup [ver : Versions, mt : MsgTypes, var : {"end", "hb", "none"}, model : {"-"}, fk : {"-"}, sid : {"-"}]

\* A well-formed Frame that decodes, without session.
OkFrame == [ver |-> 1, mt |-> "MT_FRAME", var |-> "frame", model |-> "-", fk |-> "ok", sid |-> ""]

NoEnvelope == [ver |-> 0, mt |-> "-", var |-> "-", model |-> "-", fk |-> "-", sid |-> "-"]

\* =================================================================== state
VARIABLES
    \* ---- worker.py ConnectionHandler
    w_pc,               \* "idle": awaiting the next read; "release": Result sent,
                        \* credit not yet released; "closed": the finally block ran
    initialized,
    window_size,
    inflight,
    recent_latencies,
    rx_count,
    writer_closed,      \* writer.close() was called (by handle_end)
    mm_config,          \* ModelManager.config: "none" or the loaded model path
    w_lat,              \* latency of the Result just sent, handed to auto_tune_window
    w_last,             \* the envelope handled last
    w_log,              \* what handling it did, in order
    frames_accepted,    \* Frames that consumed a credit
    results_sent,       \* Results written
    \* ---- the client of the worker.py handler
    w_burst,            \* Frames of a burst written to the socket and not yet read
    w_burst_at,         \* <<window_size, inflight>> when the burst was written,
                        \* <<0, 0>> once an envelope outside the burst is read
    \* ---- src/server/connection.py ConnectionHandler and what it owns
    s_pc,               \* "idle": awaiting the next read; "closed": _cleanup ran
    s_rx,               \* messages read from the socket
    current_model_path, \* FrameProcessor.current_model_path, "none" for None
    loader_task,        \* ModelLoadJob: "none", or the path its running task loads
    hb_running,         \* a HeartbeatTask is sending keep-alives
    pool_models,        \* ModelManager._models (shared by all connections)
    current_session_id, \* SessionService.current_session_id, "none" for None
    last_closed_session_id,
    session_dirs,       \* session directories created under output_dir
    sessions_finalized, \* sessions on disk whose last writer ran finalize()
    active_sessions,    \* SessionManager.active_sessions (its keys)
    session_events,     \* session files touched by the last step, in order
    next_id,            \* BoTSORTTracker.next_id of the connection's tracker
    track_alloc,        \* track ids allocated since the current session began
    s_last,             \* the envelope handled last
    s_log,              \* what the last step did, in order
    \* ---- two connections of one worker process, same output_dir
    entry,              \* "none" until main() ran: "server" (src/server) or
                        \* "worker_new" (worker_new.py)
    conns,              \* per connection: current_session_id,
                        \* last_closed_session_id, session_writer (the session
                        \* directory its SessionWriter writes into, or "none")
    shared_sessions,    \* WorkerAI.session_manager.active_sessions: per
                        \* session id the connection whose writer is registered
    dir_records,        \* per session directory, the connections whose
                        \* writers appended a record, in order
    t_rx,               \* messages handled by the two connections
    \* ---- SessionManager.start_session on one session_id, and the disk
    id_raw,             \* the session_id handed to start_session
    id_outcome,         \* "none", "ValueError", "started" or "ended"
    id_session_dir,     \* SessionWriter.session_dir of the writer started
    fs_created,         \* the paths created or written so far
    \* ---- one SessionWriter and the files of its session
    sw_op,              \* the call made last: "none" (no writer yet), "init",
                        \* "write_frame" or "finalize"
    segment_info,       \* per segment index: count and closed
    current_segment_index, \* NoSegment for None; the segment file is open
                        \* exactly while it is set
    seg_files,          \* per segment index, the records of seg-NNNN.jsonl
    frame_count,
    latest_frame_idx,
    session_start_mono_ns, \* in ticks, NoTs for None
    session_start_utc_ns,
    latest_mono_ns,
    latest_utc_ns,
    start_time,
    end_time,
    utc_now,            \* the wall clock _utcnow_iso reads
    index_json,         \* contents of index.json
    meta_json,          \* contents of meta.json
    \* ---- _atomic_json_dump step by step, and a reader of the files
    files,              \* per file name: exists, and the chunks it holds
    dump_pc,            \* "idle", "open" (tmp opened for writing), "closed"
                        \* (all chunks written, file closed)
    dump_path,          \* the destination of the dump in progress
    dump_payload,       \* its payload: the number of the dump
    dump_count,
    reader_saw,         \* what the reader's last read of a destination returned
    \* ---- one BoTSORTTracker
    tracker,            \* next_id, frame_idx and tracks, a list of
                        \* [track_id, class_id, bbox, last_seen_frame, hits,
                        \* time_since_update, state, kf], and use_kalman
    \* ---- one ModelManager shared by two ConnectionHandlers
    mm_models,          \* ModelManager._models: the cached paths
    mm_loading_tasks,   \* ModelManager._loading_tasks: per path the state of
                        \* the registered load task and the connection whose
                        \* job created it
    mm_threads,         \* per path, the YOLO11Model(path) calls running in
                        \* asyncio.to_thread threads
    pjobs,              \* the ModelLoadJob tasks that have not finished
    pconn,              \* per connection: state, processor model, replies
                        \* written and Init messages handled
    \* ---- worker_new.py ConnectionHandler: model load and keep-alive
    wn_model,           \* self.model: "none" or the loaded path
    wn_loading_task,    \* self.model_loading_task: "none" or the path loading
    wn_keepalive_task,  \* self.model_keepalive_task is running
    wn_closing,         \* the handler left its loop and cleaned up
    wn_log,             \* what it wrote
    \* ---- worker.py AIWorker: connections and idle timer
    aw_connections,     \* self.connections: the handlers registered
    aw_live,            \* the handlers whose handle() has not returned
    aw_accepted,        \* connections accepted so far
    aw_idle_timer,      \* self.idle_timer: "none", "sleeping" or "done"
    aw_model,           \* ModelManager.config: "none" or the loaded path
    \* ---- worker.py ConnectionHandler.auto_tune_window over many Results
    tu_window,          \* self.window_size
    tu_latencies,       \* self.recent_latencies
    tu_sent,            \* what the last call sent: <<>> or a WindowUpdate
    tu_results,         \* Results so far
    \* ---- src/main.py and WorkerServer: shutdown
    sd_phase,           \* "serving", "interrupted" (main() is cancelled),
                        \* "run_left" (server.run() was left), "shutdown_done"
    sd_listener,        \* the listening socket: "open" or "closed"
    sd_server_sessions, \* active sessions of WorkerServer.session_service
    sd_conn,            \* per connection: state, current session and the
                        \* sessions its SessionService finalized
    \* ---- two ConnectionHandlers of src/server sharing one ModelManager
    iso_conf_threshold, \* ModelManager.conf_threshold, in tenths
    iso_models,         \* ModelManager._models: the cached paths
    iso_conn,           \* per connection: state, the processor's
                        \* current_model_path and class_filter_ids, the load in
                        \* progress, messages handled, and what the last
                        \* inference was run with
    \* ---- the tasks of one src/server connection writing to its socket
    sk_sock,            \* the bytes handed to the StreamWriter, in order, each
                        \* with the number of the write_frame call it is of
    sk_pc,              \* per task: "off", "idle" or "drain" (in write_frame,
                        \* suspended in writer.drain())
    sk_pending,         \* per task: what its write_frame still has to write
    sk_writes,          \* write_frame calls so far
    sk_loading          \* a model load is in progress

wvars == <<w_pc, initialized, window_size, inflight, recent_latencies, rx_count,
           writer_closed, mm_config, w_lat, w_last, w_log, frames_accepted, results_sent,
           w_burst, w_burst_at>>

svars == <<s_pc, s_rx, current_model_path, loader_task, hb_running, pool_models,
           current_session_id, last_closed_session_id, session_dirs,
           sessions_finalized, active_sessions, session_events, next_id,
           track_alloc, s_last, s_log>>

tvars == <<entry, conns, shared_sessions, dir_records, t_rx>>

ivars == <<id_raw, id_outcome, id_session_dir, fs_created>>

fvars == <<sw_op, segment_info, current_segment_index, seg_files, frame_count,
           latest_frame_idx, session_start_mono_ns, session_start_utc_ns,
           latest_mono_ns, latest_utc_ns, start_time, end_time, utc_now,
           index_json, meta_json>>

dvars == <<files, dump_pc, dump_path, dump_payload, dump_count, reader_saw>>

kvars == <<tracker>>

pvars == <<mm_models, mm_loading_tasks, mm_threads, pjobs, pconn>>

nvars == <<wn_model, wn_loading_task, wn_keepalive_task, wn_closing, wn_log>>

avars == <<aw_connections, aw_live, aw_accepted, aw_idle_timer, aw_model>>

uvars == <<tu_window, tu_latencies, tu_sent, tu_results>>

gvars == <<sd_phase, sd_listener, sd_server_sessions, sd_conn>>

xvars == <<iso_conf_threshold, iso_models, iso_conn>>

ovars == <<sk_sock, sk_pc, sk_pending, sk_writes, sk_loading>>

vars == <<wvars, svars, tvars, ivars, fvars, dvars, kvars, pvars, nvars, avars, uvars, gvars, xvars, ovars>>

\* What the steps of one program leave alone: the state of the others.
outside_worker == <<svars, tvars, ivars, fvars, dvars, kvars, pvars, nvars, avars, uvars, gvars, xvars, ovars>>
outside_conn == <<wvars, tvars, ivars, fvars, dvars, kvars, pvars, nvars, avars, uvars, gvars, xvars, ovars>>
outside_two == <<wvars, svars, ivars, fvars, dvars, kvars, pvars, nvars, avars, uvars, gvars, xvars, ovars>>
outside_ids == <<wvars, svars, tvars, fvars, dvars, kvars, pvars, nvars, avars, uvars, gvars, xvars, ovars>>
outside_writer == <<wvars, svars, tvars, ivars, dvars, kvars, pvars, nvars, avars, uvars, gvars, xvars, ovars>>
outside_dump == <<wvars, svars, tvars, ivars, fvars, kvars, pvars, nvars, avars, uvars, gvars, xvars, ovars>>
outside_tracker == <<wvars, svars, tvars, ivars, fvars, dvars, pvars, nvars, avars, uvars, gvars, xvars, ovars>>
outside_pool == <<wvars, svars, tvars, ivars, fvars, dvars, kvars, nvars, avars, uvars, gvars, xvars, ovars>>
outside_keepalive == <<wvars, svars, tvars, ivars, fvars, dvars, kvars, pvars, avars, uvars, gvars, xvars, ovars>>
outside_idle == <<wvars, svars, tvars, ivars, fvars, dvars, kvars, pvars, nvars, uvars, gvars, xvars, ovars>>
outside_tune == <<wvars, svars, tvars, ivars, fvars, dvars, kvars, pvars, nvars, avars, gvars, xvars, ovars>>
outside_shutdown == <<wvars, svars, tvars, ivars, fvars, dvars, kvars, pvars, nvars, avars, uvars, xvars, ovars>>
outside_iso == <<wvars, svars, tvars, ivars, fvars, dvars, kvars, pvars, nvars, avars, uvars, gvars, ovars>>
outside_socket == <<wvars, svars, tvars, ivars, fvars, dvars, kvars, pvars, nvars, avars, uvars, gvars, xvars>>

\* ================================================= worker.py: pure helpers
RECURSIVE SumSeq(_)
SumSeq(s) == IF s = <<>> THEN 0 ELSE Head(s) + SumSeq(Tail(s))

\* get_expected_msg_type: the msg_type that belongs to the carried variant.
get_expected_msg_type(e) ==
    CASE e.var = "init"  -> "MT_INIT"
      [] e.var = "frame" -> "MT_FRAME"
      [] e.var = "end"   -> "MT_END"
      [] e.var = "hb"    -> "MT_HEARTBEAT"
      [] OTHER           -> "MT_UNKNOWN"

\* The msg_type values tried on an envelope that carries another variant.
MismatchTypes == {"MT_END", "MT_FRAME"}

\* The envelopes fed to the worker.py handler. It reads no session_id, and
\* nothing of the payload once the version or the msg_type is rejected, so
\* payloads vary only on well-formed envelopes.
WEnvelopes ==
    {e \in Envelopes :
        /\ e.sid \in {"-", ""}
        /\ (e.ver # PROTOCOL_VERSION \/ get_expected_msg_type(e) # e.mt)
              => (e.model \in {"-", "m1"} /\ e.fk \in {"-", "ok"})
        /\ e.ver # PROTOCOL_VERSION => get_expected_msg_type(e) = e.mt
        /\ get_expected_msg_type(e) # e.mt => e.mt \in MismatchTypes}

\* envelope.WhichOneof("msg") == "req"
IsReq(e) == e.var \in {"init", "frame", "end"}

\* recent_latencies after append and pop(0) beyond max_recent_latencies.
push_latency(lats, lat) ==
    LET a == Append(lats, lat)
    IN  IF Len(a) > max_recent_latencies THEN Tail(a) ELSE a

\* A tuning that decreases without a floor.
tuned_window_unbounded(lats, win) ==
    IF Len(lats) < min_tuning_samples THEN win
    ELSE IF SumSeq(lats) > high_latency_threshold_ms * Len(lats) THEN win - 1
    ELSE IF SumSeq(lats) < low_latency_threshold_ms * Len(lats)
         THEN win + window_increase_step
    ELSE win

\* auto_tune_window: the window size after a Result of latency lat.
\* avg > high  <=>  sum > high * n  (the average is sum / n, n > 0).
tuned_window(lats, win) ==
    IF Len(lats) < min_tuning_samples THEN win
    ELSE IF SumSeq(lats) > high_latency_threshold_ms * Len(lats) /\ win > min_window_size
         THEN (IF win - 1 > min_window_size THEN win - 1 ELSE min_window_size)
    ELSE IF SumSeq(lats) < low_latency_threshold_ms * Len(lats) /\ win < max_window_size
         THEN (IF win + window_increase_step < max_window_size
               THEN win + window_increase_step ELSE max_window_size)
    ELSE win

\* The credit check written with > for >=.
window_full_off_by_one(inf, win) == inf > win

\* The credit check left out.
window_full_never(inf, win) == FALSE

\* The credit check of handle_frame: no credit left.
window_full(inf, win) == inf >= win

\* ============================================================ construction
\* Both handlers as constructed: ConnectionHandler.__init__ of worker.py, and
\* of src/server/connection.py with the FrameProcessor, SessionService and
\* ModelManager it is given.
\* The connections and session directories of the two-connection model.
Conns == {"A", "B"}
TwoDirs == {"s1", "s2"}
NoSession == [current_session_id |-> "none", last_closed_session_id |-> "none",
              session_writer |-> "none"]

\* A path relative to output_dir: `up` levels above it, then `comps` below;
\* abs for a path that starts at the filesystem root.
OutputDir == [abs |-> FALSE, up |-> 0, comps |-> <<>>]

\* Timestamps are counted in ticks of 0.4 ms (400 000 ns): no multiple of a
\* tick lies halfway between two milliseconds, so round(t, 3) has no ties.
TicksPerSecond == 2500
\* SessionWriter defaults.
segment_duration_s == 10
fps == 10
SegmentTicks == segment_duration_s * TicksPerSecond
NoTs == -1
NoSegment == -1
NoTime == <<"none", 0>>
NoFile == [written |-> FALSE]

\* The JSON files of a session and their temporary siblings.
JsonFiles == {"index.json", "meta.json"}
TmpFiles == {"index.json.tmp", "meta.json.tmp"}
Absent == [exists |-> FALSE, data |-> <<>>]


NoLoadingTask == [state |-> "none", owner |-> "none"]





\* The server configuration every connection starts from: the conf_threshold
\* the ModelManager is built with (in tenths) and the class filter every
\* FrameProcessor is built with.
ServerConfThreshold == 5
ServerClassFilter == "config"

\* The tasks of a connection that write: handle()'s loop, the ModelLoadJob
\* task running _on_model_loaded / _on_model_error, and the HeartbeatTask.
SockTasks == {"main", "loader", "keepalive"}

Init ==
    /\ sk_sock = <<>>
    /\ sk_pc = [t \in SockTasks |-> IF t = "main" THEN "idle" ELSE "off"]
    /\ sk_pending = [t \in SockTasks |-> <<>>]
    /\ sk_writes = 0
    /\ sk_loading = FALSE
    /\ iso_conf_threshold = ServerConfThreshold
    /\ iso_models = {}
    /\ iso_conn = [c \in Conns |->
                      [state |-> "open", current_model_path |-> "none",
                       class_filter_ids |-> ServerClassFilter,
                       loading |-> "none", rx |-> 0, inferred |-> <<>>]]
    /\ sd_phase = "serving"
    /\ sd_listener = "open"
    /\ sd_server_sessions = {}
    /\ sd_conn = [c \in Conns |-> [state |-> "none", cur |-> "none",
                                   finalized |-> {}]]
    /\ tu_window = initial_window_size
    /\ tu_latencies = <<>>
    /\ tu_sent = <<>>
    /\ tu_results = 0
    /\ aw_connections = {}
    /\ aw_live = {}
    /\ aw_accepted = 0
    /\ aw_idle_timer = "none"
    /\ aw_model = "none"
    /\ wn_model = "none"
    /\ wn_loading_task = "none"
    /\ wn_keepalive_task = FALSE
    /\ wn_closing = FALSE
    /\ wn_log = <<>>
    /\ mm_models = {}
    /\ mm_loading_tasks = [p \in ModelPaths |-> NoLoadingTask]
    /\ mm_threads = [p \in ModelPaths |-> 0]
    /\ pjobs = {}
    /\ pconn = [c \in Conns |-> [state |-> "open", model |-> "none",
                                 log |-> <<>>, inits |-> 0]]
    /\ tracker = [next_id |-> 1, frame_idx |-> 0, tracks |-> <<>>,
                  use_kalman |-> TRUE]
    /\ files = [f \in JsonFiles \cup TmpFiles |-> Absent]
    /\ dump_pc = "idle"
    /\ dump_path = "index.json"
    /\ dump_payload = 0
    /\ dump_count = 0
    /\ reader_saw = Absent
    /\ sw_op = "none"
    /\ segment_info = <<>>
    /\ current_segment_index = NoSegment
    /\ seg_files = <<>>
    /\ frame_count = 0
    /\ latest_frame_idx = -1
    /\ session_start_mono_ns = NoTs
    /\ session_start_utc_ns = NoTs
    /\ latest_mono_ns = NoTs
    /\ latest_utc_ns = NoTs
    /\ start_time = NoTime
    /\ end_time = NoTime
    /\ utc_now = 0
    /\ index_json = NoFile
    /\ meta_json = NoFile
    /\ id_raw = <<>>
    /\ id_outcome = "none"
    /\ id_session_dir = OutputDir
    /\ fs_created = {}
    /\ entry = "none"
    /\ conns = [c \in Conns |-> NoSession]
    /\ shared_sessions = [d \in TwoDirs |-> "none"]
    /\ dir_records = [d \in TwoDirs |-> <<>>]
    /\ t_rx = 0
    /\ s_pc = "idle"
    /\ s_rx = 0
    /\ current_model_path = "none"
    /\ loader_task = "none"
    /\ hb_running = FALSE
    /\ pool_models = {}
    /\ current_session_id = "none"
    /\ last_closed_session_id = "none"
    /\ session_dirs = {}
    /\ sessions_finalized = {}
    /\ active_sessions = {}
    /\ session_events = <<>>
    /\ next_id = 1
    /\ track_alloc = <<>>
    /\ s_last = NoEnvelope
    /\ s_log = <<>>
    /\ w_burst = 0
    /\ w_burst_at = <<0, 0>>
    /\ w_pc = "idle"
    /\ initialized = FALSE
    /\ window_size = initial_window_size
    /\ inflight = 0
    /\ recent_latencies = <<>>
    /\ rx_count = 0
    /\ writer_closed = FALSE
    /\ mm_config = "none"
    /\ w_lat = 0
    /\ w_last = NoEnvelope
    /\ w_log = <<>>
    /\ frames_accepted = 0
    /\ results_sent = 0

\* ================================================= worker.py: the handler
\* send_message on a writer that handle_end closed: drain() raises, the
\* exception leaves handle_envelope and the loop, and the finally block runs.
\* W_Reply is a handler pass whose only effect is the reply `what`.
W_Reply(what) ==
    IF writer_closed
    THEN /\ w_log' = <<"send_failed", "close">>
         /\ w_pc' = "closed"
    ELSE /\ w_log' = <<what>>
         /\ w_pc' = "idle"

\* A read loop that takes the next envelope while the previous one is still
\* being handled.
W_Read_while_handling(e) ==
    /\ w_pc \in {"idle", "release"}
    /\ rx_count < MaxRx
    /\ rx_count' = rx_count + 1
    /\ w_last' = e
    /\ UNCHANGED outside_worker
    /\ IF w_burst > 0
       THEN /\ e = OkFrame
            /\ w_burst' = w_burst - 1
            /\ UNCHANGED w_burst_at
       ELSE /\ w_burst' = 0
            /\ w_burst_at' = <<0, 0>>

\* The read of handle(): the envelope is counted and remembered.
\* What the socket holds is read first: while Frames of a burst are
\* buffered, the envelope read is the next of them.
W_Read(e) ==
    /\ w_pc = "idle"
    /\ rx_count < MaxRx
    /\ rx_count' = rx_count + 1
    /\ w_last' = e
    /\ UNCHANGED outside_worker
    /\ IF w_burst > 0
       THEN /\ e = OkFrame
            /\ w_burst' = w_burst - 1
            /\ UNCHANGED w_burst_at
       ELSE /\ w_burst' = 0
            /\ w_burst_at' = <<0, 0>>

\* The client writes BurstLen well-formed Frames without reading in between.
W_ClientBurst ==
    /\ w_pc = "idle"
    /\ w_burst = 0
    /\ rx_count + BurstLen <= MaxRx
    /\ w_burst' = BurstLen
    /\ w_burst_at' = <<window_size, inflight>>
    /\ UNCHANGED <<w_pc, initialized, window_size, inflight, recent_latencies, rx_count,
                   writer_closed, mm_config, w_lat, w_last, w_log, frames_accepted,
                   results_sent, outside_worker>>

\* handle(): a length prefix of 0 or above 50 MiB.
W_BadLength ==
    /\ w_pc = "idle"
    /\ rx_count < MaxRx
    /\ w_burst = 0
    /\ w_last' = NoEnvelope
    /\ w_log' = IF writer_closed THEN <<"send_failed", "close">>
                ELSE <<"Error:FRAME_TOO_LARGE", "close">>
    /\ w_pc' = "closed"
    /\ UNCHANGED <<initialized, window_size, inflight, recent_latencies, rx_count,
                   writer_closed, mm_config, w_lat, frames_accepted, results_sent,
                   w_burst, w_burst_at, outside_worker>>

\* handle(): readexactly raises IncompleteReadError (the peer closed).
W_PeerClose ==
    /\ w_pc = "idle"
    /\ w_burst = 0
    /\ w_last' = NoEnvelope
    /\ w_log' = <<"close">>
    /\ w_pc' = "closed"
    /\ UNCHANGED <<initialized, window_size, inflight, recent_latencies, rx_count,
                   writer_closed, mm_config, w_lat, frames_accepted, results_sent,
                   w_burst, w_burst_at, outside_worker>>

\* handle_envelope: protocol_version != 1.
W_VersionUnsupported ==
    \E e \in WEnvelopes :
        /\ W_Read(e)
        /\ e.ver # PROTOCOL_VERSION
        /\ W_Reply("Error:VERSION_UNSUPPORTED")
        /\ UNCHANGED <<initialized, window_size, inflight, recent_latencies,
                       writer_closed, mm_config, w_lat, frames_accepted, results_sent>>

\* handle_envelope: msg_type does not match the oneof.
W_BadMessage ==
    \E e \in WEnvelopes :
        /\ W_Read(e)
        /\ e.ver = PROTOCOL_VERSION
        /\ get_expected_msg_type(e) # e.mt
        /\ W_Reply("Error:BAD_MESSAGE")
        /\ UNCHANGED <<initialized, window_size, inflight, recent_latencies,
                       writer_closed, mm_config, w_lat, frames_accepted, results_sent>>

\* The envelope passed both validations of handle_envelope.
W_Valid(e) ==
    /\ e.ver = PROTOCOL_VERSION
    /\ get_expected_msg_type(e) = e.mt

\* handle_envelope: not initialized and the oneof is not a Request;
\* handle_frame: not initialized.
W_BadSequence ==
    \E e \in WEnvelopes :
        /\ W_Read(e)
        /\ W_Valid(e)
        /\ ~initialized
        /\ (~IsReq(e) \/ e.var = "frame")
        /\ W_Reply("Error:BAD_SEQUENCE")
        /\ UNCHANGED <<initialized, window_size, inflight, recent_latencies,
                       writer_closed, mm_config, w_lat, frames_accepted, results_sent>>

\* handle_init, ModelManager.load raising: nothing is sent, the exception
\* ends the loop and the finally block closes the connection.
W_InitLoadFails ==
    \E e \in WEnvelopes :
        /\ W_Read(e)
        /\ W_Valid(e)
        /\ e.var = "init"
        /\ mm_config # e.model
        /\ e.model \notin ModelPaths
        /\ w_log' = <<"load_failed", "close">>
        /\ w_pc' = "closed"
        /\ UNCHANGED <<initialized, window_size, inflight, recent_latencies,
                       writer_closed, mm_config, w_lat, frames_accepted, results_sent>>

\* handle_init: (re)load when the config changed, send InitOk, then set initialized.
W_Init ==
    \E e \in WEnvelopes :
        /\ W_Read(e)
        /\ W_Valid(e)
        /\ e.var = "init"
        /\ e.model \in ModelPaths
        /\ mm_config' = e.model
        /\ IF writer_closed
           THEN /\ w_log' = <<"send_failed", "close">>
                /\ w_pc' = "closed"
                /\ UNCHANGED initialized
           ELSE /\ w_log' = <<"InitOk">>
                /\ w_pc' = "idle"
                /\ initialized' = TRUE
        /\ UNCHANGED <<window_size, inflight, recent_latencies,
                       writer_closed, w_lat, frames_accepted, results_sent>>

\* handle_frame: the window is full.
W_FrameBackpressure ==
    \E e \in WEnvelopes :
        /\ W_Read(e)
        /\ W_Valid(e)
        /\ e.var = "frame"
        /\ initialized
        /\ window_full(inflight, window_size)
        /\ W_Reply("Error:BACKPRESSURE_TIMEOUT")
        /\ UNCHANGED <<initialized, window_size, inflight, recent_latencies,
                       writer_closed, mm_config, w_lat, frames_accepted, results_sent>>

\* The error a frame that took a credit ends in, "" when it decodes.
frame_error(fk) ==
    CASE fk = "planes"  -> "Error:INVALID_FRAME"
      [] fk = "badfmt"  -> "Error:UNSUPPORTED_FORMAT"
      [] fk = "corrupt" -> "Error:INVALID_FRAME"
      [] OTHER          -> ""

\* The credit count after a frame that took a credit was answered with an Error.
inflight_after_error(inf) == inf + 1

\* handle_frame: a credit is taken, then the planes check or the decoder
\* fails: an Error is sent and the handler returns.
W_FrameRejected ==
    \E e \in WEnvelopes :
        /\ W_Read(e)
        /\ W_Valid(e)
        /\ e.var = "frame"
        /\ initialized
        /\ ~window_full(inflight, window_size)
        /\ frame_error(e.fk) # ""
        /\ inflight' = inflight_after_error(inflight)
        /\ frames_accepted' = frames_accepted + 1
        /\ IF writer_closed
           THEN /\ w_log' = <<"accept", "send_failed", "close">>
                /\ w_pc' = "closed"
           ELSE /\ w_log' = <<"accept", frame_error(e.fk)>>
                /\ w_pc' = "idle"
        /\ UNCHANGED <<initialized, window_size, recent_latencies,
                       writer_closed, mm_config, w_lat, results_sent>>

\* handle_frame: a credit is taken, the frame is decoded and inferred and
\* the Result is sent; the handler is then suspended in send_response.
W_FrameResult ==
    \E e \in WEnvelopes, lat \in Latencies :
        /\ W_Read(e)
        /\ W_Valid(e)
        /\ e.var = "frame"
        /\ initialized
        /\ ~window_full(inflight, window_size)
        /\ frame_error(e.fk) = ""
        /\ inflight' = inflight + 1
        /\ frames_accepted' = frames_accepted + 1
        /\ IF writer_closed
           THEN /\ w_log' = <<"accept", "decode", "infer", "send_failed", "close">>
                /\ w_pc' = "closed"
                /\ UNCHANGED <<w_lat, results_sent>>
           ELSE /\ w_log' = <<"accept", "decode", "infer", "Result">>
                /\ w_pc' = "release"
                /\ w_lat' = lat
                /\ results_sent' = results_sent + 1
        /\ UNCHANGED <<initialized, window_size, recent_latencies, writer_closed, mm_config>>

\* The release forgotten.
release_credit_forgotten(inf) == inf

\* "Release credit": one credit back, never below zero.
release_credit(inf) == IF inf > 0 THEN inf - 1 ELSE inf

\* handle_frame after the Result went out: release the credit, then
\* auto_tune_window, which sends a WindowUpdate when the size changed.
W_Release ==
    /\ w_pc = "release"
    /\ inflight' = release_credit(inflight)
    /\ recent_latencies' = push_latency(recent_latencies, w_lat)
    /\ window_size' = tuned_window(recent_latencies', window_size)
    /\ w_log' = IF window_size' # window_size
                THEN w_log \o <<"release", "WindowUpdate">>
                ELSE Append(w_log, "release")
    /\ w_pc' = "idle"
    /\ UNCHANGED <<initialized, rx_count, writer_closed, mm_config, w_lat, w_last,
                   frames_accepted, results_sent, w_burst, w_burst_at, outside_worker>>

\* handle_end: the writer is closed; the loop goes on to the next read.
W_End ==
    \E e \in WEnvelopes :
        /\ W_Read(e)
        /\ W_Valid(e)
        /\ e.var = "end"
        /\ writer_closed' = TRUE
        /\ w_log' = <<"writer_close">>
        /\ w_pc' = "idle"
        /\ UNCHANGED <<initialized, window_size, inflight, recent_latencies,
                       mm_config, w_lat, frames_accepted, results_sent>>

\* handle_heartbeat: echo a Heartbeat.
W_Heartbeat ==
    \E e \in WEnvelopes :
        /\ W_Read(e)
        /\ W_Valid(e)
        /\ e.var = "hb"
        /\ initialized
        /\ W_Reply("Heartbeat")
        /\ UNCHANGED <<initialized, window_size, inflight, recent_latencies,
                       writer_closed, mm_config, w_lat, frames_accepted, results_sent>>

\* handle_envelope, initialized: a Response or an empty envelope is routed nowhere.
W_Ignored ==
    \E e \in WEnvelopes :
        /\ W_Read(e)
        /\ W_Valid(e)
        /\ e.var = "none"
        /\ initialized
        /\ w_log' = <<>>
        /\ w_pc' = "idle"
        /\ UNCHANGED <<initialized, window_size, inflight, recent_latencies,
                       writer_closed, mm_config, w_lat, frames_accepted, results_sent>>

NextWorker ==
    \/ W_BadLength
    \/ W_PeerClose
    \/ W_VersionUnsupported
    \/ W_BadMessage
    \/ W_BadSequence
    \/ W_InitLoadFails
    \/ W_Init
    \/ W_FrameBackpressure
    \/ W_FrameRejected
    \/ W_FrameResult
    \/ W_Release
    \/ W_End
    \/ W_Heartbeat
    \/ W_Ignored

\* The handler fed by a client that sends only well-formed Init and Frame
\* envelopes, some of the Frames in bursts.
NextBurst ==
    \/ W_ClientBurst
    \/ W_Init
    \/ W_FrameBackpressure
    \/ W_FrameRejected
    \/ W_FrameResult
    \/ W_Release

SpecWorker == Init /\ [][NextWorker]_vars

SpecBurst == Init /\ [][NextBurst]_vars

\* ================================== src/server/connection.py: pure helpers

\* The envelopes fed to the src/server handler. Nothing of the payload is read
\* once the version is rejected, so payloads vary only on version 1.
SEnvelopes ==
    {e \in Envelopes :
        /\ e.fk \in {"-", "ok", "corrupt"}
        /\ e.ver # PROTOCOL_VERSION
              => (e.model \in {"-", "m1"} /\ e.fk \in {"-", "ok"} /\ e.sid \in {"-", ""}
                  /\ get_expected_msg_type(e) = e.mt)
        /\ get_expected_msg_type(e) # e.mt
              => (e.mt \in MismatchTypes /\ e.model \in {"-", "m1"}
                  /\ e.fk \in {"-", "ok"} /\ e.sid \in {"-", "s1"})}

\* handle(): msg_type END is handled as End whatever the envelope carries;
\* _handle_request: a Request carrying End.
s_is_end(e) == e.mt = "MT_END" \/ e.var = "end"

\* FrameDecoder.decode: a registered format whose data decodes to an image.
s_decodes(fk) == fk \in {"ok", "planes"}

\* SessionManager.normalize_session_id accepts the identifier.
valid_session_id(sid) == sid \notin {"", "../x"}

\* The state of the connection's FrameProcessor (its SessionService, its
\* SessionManager and its tracker) as one record; ev collects what the step
\* does to session files, in order.
sess ==
    [cur |-> current_session_id, last |-> last_closed_session_id,
     dirs |-> session_dirs, fin |-> sessions_finalized,
     act |-> active_sessions, ev |-> <<>>,
     nid |-> next_id, alloc |-> track_alloc]

\* SessionService.end: the active session's writer is popped and finalized
\* and the session is remembered as the one closed last.
session_end(ss) ==
    IF ss.cur = "none"
    THEN ss
    ELSE [ss EXCEPT !.fin = @ \cup {ss.cur}, !.last = ss.cur, !.cur = "none",
                    !.act = @ \ {ss.cur},
                    !.ev = Append(@, <<"finalize", ss.cur>>)]

\* SessionService.start: a SessionWriter is made (its directory created, its
\* meta.json and index.json written afresh) unless the identifier is refused.
session_start(ss, sid) ==
    IF ~valid_session_id(sid)
    THEN ss
    ELSE LET s1 == IF ss.cur # "none" /\ ss.cur # sid THEN session_end(ss) ELSE ss
         IN  IF s1.cur = sid
             THEN s1
             ELSE [s1 EXCEPT !.cur = sid, !.dirs = @ \cup {sid}, !.last = "none",
                             !.fin = @ \ {sid}, !.act = @ \cup {sid},
                             !.ev = Append(@, <<"create", sid>>),
                             !.alloc = <<>>]

\* A processor that leaves the tracker as it is when a session ends.
tracker_reset_forgotten(ss) == ss

\* TrackingService.reset / BoTSORTTracker.reset: no tracks, next_id 1.
tracker_reset(ss) == [ss EXCEPT !.nid = 1]

\* A processor that goes on with the active session when the id changes.
manage_session_keeps_previous(ss, sid) ==
    IF sid = ""
    THEN IF ss.cur # "none" THEN tracker_reset(session_end(ss)) ELSE ss
    ELSE IF ss.cur = "none" /\ ss.last # sid
         THEN session_start(ss, sid)
         ELSE ss

\* FrameProcessor._manage_session, run on every Frame before it is decoded.
manage_session(ss, sid) ==
    IF sid = ""
    THEN IF ss.cur # "none" THEN tracker_reset(session_end(ss)) ELSE ss
    ELSE LET s1 == IF ss.cur # "none" /\ ss.cur # sid
                   THEN tracker_reset(session_end(ss))
                   ELSE ss
         IN  IF s1.cur = "none" /\ s1.last # sid
             THEN session_start(s1, sid)
             ELSE s1

\* FrameProcessor.end_session.
end_session(ss) ==
    IF ss.cur # "none" THEN tracker_reset(session_end(ss)) ELSE ss

\* BoTSORTTracker.update on a frame in which k detections match no track:
\* each gets next_id, which is then incremented. The tracker runs only while
\* a session is active.
tracker_update(ss, k) ==
    IF ss.cur = "none"
    THEN ss
    ELSE [ss EXCEPT !.alloc = @ \o [i \in 1..k |-> ss.nid + i - 1],
                    !.nid = @ + k]

\* ================================== src/server/connection.py: the handler

\* The session state after a step.
S_SetSession(ss) ==
    /\ current_session_id' = ss.cur
    /\ last_closed_session_id' = ss.last
    /\ session_dirs' = ss.dirs
    /\ sessions_finalized' = ss.fin
    /\ active_sessions' = ss.act
    /\ session_events' = ss.ev
    /\ next_id' = ss.nid
    /\ track_alloc' = ss.alloc

\* A _cleanup that leaves the session as it is.
cleanup_session_skipped(ss) == ss

\* _cleanup, "Finalizar sesión": processor.end_session().
cleanup_session(ss) == end_session(ss)

\* _cleanup: the load and the keep-alive are cancelled, the active session is
\* ended, the writer is closed.
S_Cleanup(why) ==
    /\ loader_task' = "none"
    /\ hb_running' = FALSE
    /\ S_SetSession(cleanup_session(sess))
    /\ s_pc' = "closed"
    /\ s_log' = <<why, "close">>
    /\ UNCHANGED <<current_model_path, pool_models>>

\* handle(): read_frame returned a message.
S_Read(e) ==
    /\ s_pc = "idle"
    /\ s_rx < MaxConnRx
    /\ s_rx' = s_rx + 1
    /\ s_last' = e
    /\ UNCHANGED outside_conn

\* read_frame: a length prefix of 0 or above max_size; None is returned and
\* the loop ends.
S_BadLength ==
    /\ s_pc = "idle"
    /\ s_rx < MaxConnRx
    /\ s_last' = NoEnvelope
    /\ S_Cleanup("invalid_length")
    /\ UNCHANGED <<s_rx, outside_conn>>

\* read_frame: IncompleteReadError, the peer closed.
S_PeerClose ==
    /\ s_pc = "idle"
    /\ s_last' = NoEnvelope
    /\ S_Cleanup("eof")
    /\ UNCHANGED <<s_rx, outside_conn>>

\* decode_envelope: protocol_version != 1 is logged, None is returned and the
\* loop ends.
S_VersionRejected ==
    \E e \in SEnvelopes :
        /\ S_Read(e)
        /\ e.ver # PROTOCOL_VERSION
        /\ S_Cleanup("version_rejected")

\* _handle_end: the processor ends the active session.
S_End ==
    \E e \in SEnvelopes :
        /\ S_Read(e)
        /\ e.ver = PROTOCOL_VERSION
        /\ s_is_end(e)
        /\ S_SetSession(end_session(sess))
        /\ s_log' = <<"end_session">>
        /\ UNCHANGED <<s_pc, current_model_path, loader_task, hb_running, pool_models>>

\* _handle_init: empty model path.
S_InitEmpty ==
    \E e \in SEnvelopes :
        /\ S_Read(e)
        /\ e.ver = PROTOCOL_VERSION
        /\ ~s_is_end(e)
        /\ e.var = "init"
        /\ e.model = ""
        /\ s_log' = <<"Error:BAD_MESSAGE">>
        /\ S_SetSession(sess)
        /\ UNCHANGED <<s_pc, current_model_path, loader_task, hb_running, pool_models>>

\* FrameProcessor.set_model: the path frames are inferred with from now on.
set_model_once(current, model_path) ==
    IF current = "none" THEN model_path ELSE current

set_model(current, model_path) == model_path

\* What process_frame's inference leaves in the log: the model it ran.
infer_event(model_path) ==
    IF model_path = "m1" THEN "infer:m1" ELSE "infer:m2"

\* _handle_init: the model is in the pool.
S_InitCached ==
    \E e \in SEnvelopes :
        /\ S_Read(e)
        /\ e.ver = PROTOCOL_VERSION
        /\ ~s_is_end(e)
        /\ e.var = "init"
        /\ e.model \in pool_models
        /\ current_model_path' = set_model(current_model_path, e.model)
        /\ s_log' = <<"InitOk">>
        /\ S_SetSession(sess)
        /\ UNCHANGED <<s_pc, loader_task, hb_running, pool_models>>

\* _handle_init: the model is not in the pool; a load task is started (a
\* running one is cancelled) and keep-alives begin.
S_InitStartLoad ==
    \E e \in SEnvelopes :
        /\ S_Read(e)
        /\ e.ver = PROTOCOL_VERSION
        /\ ~s_is_end(e)
        /\ e.var = "init"
        /\ e.model # ""
        /\ e.model \notin pool_models
        /\ e.model # loader_task
        /\ loader_task' = e.model
        /\ hb_running' = TRUE
        /\ s_log' = <<"load_started">>
        /\ S_SetSession(sess)
        /\ UNCHANGED <<s_pc, current_model_path, pool_models>>

\* _handle_init: the model is the one being loaded.  ModelLoadJob.start
\* cancels the running job and with it the pool's load task; the new job
\* takes its first step before the cancelled one pops the pool's entry,
\* awaits the cancelled task and ends with CancelledError: no load is left,
\* no reply is written and the keep-alives end.
S_InitSameLoad ==
    \E e \in SEnvelopes :
        /\ S_Read(e)
        /\ e.ver = PROTOCOL_VERSION
        /\ ~s_is_end(e)
        /\ e.var = "init"
        /\ e.model # ""
        /\ e.model \notin pool_models
        /\ e.model = loader_task
        /\ loader_task' = "none"
        /\ hb_running' = FALSE
        /\ s_log' = <<"load_cancelled">>
        /\ S_SetSession(sess)
        /\ UNCHANGED <<s_pc, current_model_path, pool_models>>

\* ModelLoadJob._load and _on_model_loaded: the load succeeded.
S_LoadDone ==
    /\ s_pc = "idle"
    /\ loader_task \in ModelPaths
    /\ pool_models' = pool_models \cup {loader_task}
    /\ current_model_path' = set_model(current_model_path, loader_task)
    /\ hb_running' = FALSE
    /\ loader_task' = "none"
    /\ s_log' = <<"InitOk">>
    /\ S_SetSession(sess)
    /\ UNCHANGED <<s_pc, s_rx, s_last, outside_conn>>

\* ModelLoadJob._load and _on_model_error: the load raised.
S_LoadFail ==
    /\ s_pc = "idle"
    /\ loader_task \notin ModelPaths \cup {"none"}
    /\ hb_running' = FALSE
    /\ loader_task' = "none"
    /\ s_log' = <<"Error:INTERNAL">>
    /\ S_SetSession(sess)
    /\ UNCHANGED <<s_pc, s_rx, s_last, current_model_path, pool_models, outside_conn>>

\* HeartbeatTask._run: a keep-alive while the load is in progress.
S_KeepAlive ==
    /\ s_pc = "idle"
    /\ hb_running
    /\ loader_task # "none"
    /\ s_log' = <<"Heartbeat">>
    /\ S_SetSession(sess)
    /\ UNCHANGED <<s_pc, s_rx, s_last, current_model_path,
                   loader_task, hb_running, pool_models, outside_conn>>

\* _handle_frame: no model set on the processor.
S_FrameNotReady ==
    \E e \in SEnvelopes :
        /\ S_Read(e)
        /\ e.ver = PROTOCOL_VERSION
        /\ ~s_is_end(e)
        /\ e.var = "frame"
        /\ current_model_path = "none"
        /\ s_log' = <<"Error:MODEL_NOT_READY">>
        /\ S_SetSession(sess)
        /\ UNCHANGED <<s_pc, current_model_path, loader_task, hb_running, pool_models>>

\* Both replies written for one Frame.
frame_reply_twice(has_result) ==
    IF has_result THEN <<"Result", "Error:INVALID_FRAME">>
    ELSE <<"Error:INVALID_FRAME">>

\* _handle_frame once process_frame has returned: None is answered with
\* Error INVALID_FRAME and the handler returns, a FrameResult with the Result
\* of its frame_id.
frame_reply(has_result) ==
    IF has_result THEN <<"Result">> ELSE <<"Error:INVALID_FRAME">>

\* _handle_frame and process_frame: the session is managed, then the frame
\* is decoded and inferred; a frame that does not decode is refused.
S_Frame ==
    \E e \in SEnvelopes :
        /\ S_Read(e)
        /\ e.ver = PROTOCOL_VERSION
        /\ ~s_is_end(e)
        /\ e.var = "frame"
        /\ current_model_path # "none"
        /\ \E k \in 0..MaxNewTracks :
              /\ IF s_decodes(e.fk)
                 THEN /\ S_SetSession(tracker_update(manage_session(sess, e.sid), k))
                      /\ s_log' = <<"manage_session", "decode",
                                    infer_event(current_model_path)>>
                                   \o frame_reply(TRUE)
                 ELSE /\ k = 0
                      /\ S_SetSession(manage_session(sess, e.sid))
                      /\ s_log' = <<"manage_session">> \o frame_reply(FALSE)
        /\ UNCHANGED <<s_pc, current_model_path, loader_task, hb_running, pool_models>>

\* process_frame raises after the session was managed (the tracker or the
\* append to the segment file fails): the exception leaves handle()'s loop
\* and _cleanup runs.
S_FrameRaises ==
    \E e \in SEnvelopes :
        /\ S_Read(e)
        /\ e.ver = PROTOCOL_VERSION
        /\ ~s_is_end(e)
        /\ e.var = "frame"
        /\ current_model_path # "none"
        /\ s_decodes(e.fk)
        /\ manage_session(sess, e.sid).cur # "none"
        /\ S_SetSession(cleanup_session(manage_session(sess, e.sid)))
        /\ loader_task' = "none"
        /\ hb_running' = FALSE
        /\ s_pc' = "closed"
        /\ s_log' = <<"manage_session", "decode",
                      infer_event(current_model_path), "raised", "close">>
        /\ UNCHANGED <<current_model_path, pool_models>>

\* handle(): a Heartbeat is answered with a Heartbeat.
S_Heartbeat ==
    \E e \in SEnvelopes :
        /\ S_Read(e)
        /\ e.ver = PROTOCOL_VERSION
        /\ ~s_is_end(e)
        /\ e.var = "hb"
        /\ s_log' = <<"Heartbeat">>
        /\ S_SetSession(sess)
        /\ UNCHANGED <<s_pc, current_model_path, loader_task, hb_running, pool_models>>

\* handle(): neither a Request nor a Heartbeat; a warning is logged.
S_Ignored ==
    \E e \in SEnvelopes :
        /\ S_Read(e)
        /\ e.ver = PROTOCOL_VERSION
        /\ ~s_is_end(e)
        /\ e.var = "none"
        /\ s_log' = <<>>
        /\ S_SetSession(sess)
        /\ UNCHANGED <<s_pc, current_model_path, loader_task, hb_running, pool_models>>

NextConn ==
    \/ S_BadLength
    \/ S_PeerClose
    \/ S_VersionRejected
    \/ S_End
    \/ S_InitEmpty
    \/ S_InitCached
    \/ S_InitStartLoad
    \/ S_InitSameLoad
    \/ S_LoadDone
    \/ S_LoadFail
    \/ S_KeepAlive
    \/ S_FrameNotReady
    \/ S_Frame
    \/ S_FrameRaises
    \/ S_Heartbeat
    \/ S_Ignored

SpecConn == Init /\ [][NextConn]_vars

\* The load job of a connection that stays open comes to its end: its thread
\* returns or raises and the event loop resumes the job.
SpecConnFair ==
    Init /\ [][NextConn]_vars /\ WF_vars(S_LoadDone) /\ WF_vars(S_LoadFail)

\* ============================ two connections writing under one output_dir
\* Both connections have a model loaded; their Frames decode.  `st` is the
\* pair [conns, shared] the session management of one handler pass works on.
two == [conns |-> conns, shared |-> shared_sessions]

\* src/server: _create_processor gives every connection a SessionService
\* with a SessionManager of its own over the same output_dir, so
\* _manage_session sees only the sessions of its own connection.
server_manage_session(st, c, sid) ==
    LET r == manage_session([cur |-> st.conns[c].current_session_id,
                             last |-> st.conns[c].last_closed_session_id,
                             dirs |-> {}, fin |-> {}, act |-> {}, ev |-> <<>>,
                             nid |-> 1, alloc |-> <<>>], sid)
    IN [st EXCEPT !.conns[c] = [current_session_id |-> r.cur,
                                last_closed_session_id |-> r.last,
                                session_writer |-> r.cur]]

server_end_session(st, c) ==
    LET r == end_session([cur |-> st.conns[c].current_session_id,
                          last |-> st.conns[c].last_closed_session_id,
                          dirs |-> {}, fin |-> {}, act |-> {}, ev |-> <<>>,
                          nid |-> 1, alloc |-> <<>>])
    IN [st EXCEPT !.conns[c] = [current_session_id |-> r.cur,
                                last_closed_session_id |-> r.last,
                                session_writer |-> r.cur]]

\* worker_new.py _finalize_session: the shared manager pops whatever writer
\* is registered under the connection's session id and finalizes it.
wn_finalize_session(st, c) ==
    LET cur == st.conns[c].current_session_id
    IN IF cur = "none" THEN st
       ELSE [conns |-> [st.conns EXCEPT ![c] =
                          [current_session_id |-> "none",
                           last_closed_session_id |-> cur,
                           session_writer |-> "none"]],
             shared |-> [st.shared EXCEPT ![cur] = "none"]]

\* SessionManager.start_session on the shared manager: a writer registered
\* under the id is finalized and replaced; the connection that holds it is
\* not told and keeps its session_writer.
wn_start_session(st, c, sid) ==
    [conns |-> [st.conns EXCEPT ![c] =
                  [current_session_id |-> sid,
                   last_closed_session_id |-> "none",
                   session_writer |-> sid]],
     shared |-> [st.shared EXCEPT ![sid] = c]]

\* worker_new.py handle_frame, "Gestionar estado de sesión".
wn_manage_session(st, c, sid) ==
    IF sid = ""
    THEN wn_finalize_session(st, c)
    ELSE LET s1 == IF st.conns[c].current_session_id \notin {"none", sid}
                   THEN wn_finalize_session(st, c) ELSE st
         IN IF /\ s1.conns[c].current_session_id = "none"
               /\ s1.conns[c].last_closed_session_id # sid
            THEN wn_start_session(s1, c, sid)
            ELSE s1

\* The state after a handler pass of connection c; has_tracks tells whether
\* the tracker returned tracks, which the connection's writer then appends
\* (SessionWriter.write_frame works on a finalized writer too: it reopens
\* the segment file).
T_Set(st, c, has_tracks) ==
    /\ conns' = st.conns
    /\ shared_sessions' = st.shared
    /\ dir_records' =
         IF has_tracks /\ st.conns[c].session_writer # "none"
                       /\ st.conns[c].current_session_id # "none"
         THEN [dir_records EXCEPT ![st.conns[c].session_writer] = Append(@, c)]
         ELSE dir_records
    /\ t_rx' = t_rx + 1

T_Main(e) ==
    /\ entry = "none"
    /\ entry' = e
    /\ UNCHANGED <<conns, shared_sessions, dir_records, t_rx, outside_two>>

T_ServerFrame(c, sid, has_tracks) ==
    /\ entry = "server"
    /\ t_rx < MaxTwoRx
    /\ T_Set(server_manage_session(two, c, sid), c, has_tracks)
    /\ UNCHANGED <<entry, outside_two>>

T_ServerEnd(c) ==
    /\ entry = "server"
    /\ t_rx < MaxTwoRx
    /\ T_Set(server_end_session(two, c), c, FALSE)
    /\ UNCHANGED <<entry, outside_two>>

T_WorkerNewFrame(c, sid, has_tracks) ==
    /\ entry = "worker_new"
    /\ t_rx < MaxTwoRx
    /\ T_Set(wn_manage_session(two, c, sid), c, has_tracks)
    /\ UNCHANGED <<entry, outside_two>>

T_WorkerNewEnd(c) ==
    /\ entry = "worker_new"
    /\ t_rx < MaxTwoRx
    /\ T_Set(wn_finalize_session(two, c), c, FALSE)
    /\ UNCHANGED <<entry, outside_two>>

NextTwoConn ==
    \/ \E e \in {"server", "worker_new"} : T_Main(e)
    \/ \E c \in Conns, sid \in TwoDirs \cup {""}, has_tracks \in BOOLEAN :
          T_ServerFrame(c, sid, has_tracks)
    \/ \E c \in Conns : T_ServerEnd(c)
    \/ \E c \in Conns, sid \in TwoDirs \cup {""}, has_tracks \in BOOLEAN :
          T_WorkerNewFrame(c, sid, has_tracks)
    \/ \E c \in Conns : T_WorkerNewEnd(c)

SpecTwoConn == Init /\ [][NextTwoConn]_vars

\* =============================== session ids and the paths a session writes
\* A session_id is a string over this alphabet, as a sequence of characters.
IdChars == {" ", ".", "/", "\\", "a"}
RawIds == UNION {[1..n -> IdChars] : n \in 0..MaxIdLen}

\* str.strip(): leading and trailing whitespace removed.
RECURSIVE lstrip(_)
lstrip(str) ==
    IF str # <<>> /\ Head(str) = " " THEN lstrip(Tail(str)) ELSE str

RECURSIVE rstrip(_)
rstrip(str) ==
    IF str # <<>> /\ str[Len(str)] = " "
    THEN rstrip(SubSeq(str, 1, Len(str) - 1)) ELSE str

strip(str) == rstrip(lstrip(str))

\* A normalize_session_id that only trims.
normalize_session_id_unchecked(session_id) ==
    [ok |-> TRUE, id |-> strip(session_id)]

\* SessionManager.normalize_session_id; ok = FALSE stands for ValueError.
normalize_session_id(session_id) ==
    LET normalized == strip(session_id)
    IN IF normalized = <<>>
       THEN [ok |-> FALSE, id |-> normalized]
       ELSE IF \/ normalized \in {<<".">>, <<".", ".">>}
               \/ \E i \in DOMAIN normalized : normalized[i] \in {"/", "\\"}
            THEN [ok |-> FALSE, id |-> normalized]
            ELSE [ok |-> TRUE, id |-> normalized]

\* One more component below a path, as the filesystem resolves it: "" and
\* "." name the directory itself, ".." its parent.
path_child(path, comp) ==
    IF comp \in {<<>>, <<".">>} THEN path
    ELSE IF comp = <<".", ".">>
         THEN IF path.comps # <<>>
              THEN [path EXCEPT !.comps = SubSeq(@, 1, Len(@) - 1)]
              ELSE IF path.abs THEN path ELSE [path EXCEPT !.up = @ + 1]
         ELSE [path EXCEPT !.comps = Append(@, comp)]

RECURSIVE path_walk(_, _, _)
path_walk(path, comp, str) ==
    IF str = <<>> THEN path_child(path, comp)
    ELSE IF Head(str) = "/"
         THEN path_walk(path_child(path, comp), <<>>, Tail(str))
         ELSE path_walk(path, Append(comp, Head(str)), Tail(str))

\* pathlib's `base / name`: a name that starts with "/" replaces the base;
\* "/" separates components, a backslash is an ordinary character.
path_join(base, name) ==
    IF name # <<>> /\ Head(name) = "/"
    THEN path_walk([abs |-> TRUE, up |-> 0, comps |-> <<>>], <<>>, name)
    ELSE path_walk(base, <<>>, name)

\* A file or directory with a fixed name inside a directory.
path_file(dir, name) == [dir EXCEPT !.comps = Append(@, <<name>>)]

SegName == [i \in 0..9 |-> <<"seg-000", <<"0", "1", "2", "3", "4", "5", "6", "7", "8", "9">>[i + 1]>>]

\* What SessionWriter.__init__ creates: the session directory, tracks/, and
\* through _write_meta and _write_index the two JSON files and their *.tmp
\* siblings.
writer_init_paths(dir) ==
    {dir, path_file(dir, "tracks"),
     path_file(dir, "meta.json.tmp"), path_file(dir, "meta.json"),
     path_file(dir, "index.json.tmp"), path_file(dir, "index.json")}

\* finalize: index.json and meta.json are written again.
writer_finalize_paths(dir) ==
    {dir, path_file(dir, "meta.json.tmp"), path_file(dir, "meta.json"),
     path_file(dir, "index.json.tmp"), path_file(dir, "index.json")}

\* write_frame into segment i: the segment file, then index.json and meta.json.
writer_frame_paths(dir, i) ==
    {[dir EXCEPT !.comps = @ \o <<<<"tracks">>, SegName[i]>>]}
        \cup writer_finalize_paths(dir)

\* SessionManager.start_session(session_id).
I_StartSession(session_id) ==
    /\ id_outcome = "none"
    /\ id_raw' = session_id
    /\ LET n == normalize_session_id(session_id)
       IN IF ~n.ok
          THEN /\ id_outcome' = "ValueError"
               /\ UNCHANGED <<id_session_dir, fs_created>>
          ELSE /\ id_outcome' = "started"
               /\ id_session_dir' = path_join(OutputDir, n.id)
               /\ fs_created' = fs_created
                     \cup writer_init_paths(path_join(OutputDir, n.id))
    /\ UNCHANGED outside_ids

\* SessionWriter.write_frame of a frame that falls into segment i.
I_WriteFrame(i) ==
    /\ id_outcome = "started"
    /\ fs_created' = fs_created \cup writer_frame_paths(id_session_dir, i)
    /\ fs_created' # fs_created
    /\ UNCHANGED <<id_raw, id_outcome, id_session_dir, outside_ids>>

\* SessionManager.end_session: the writer is finalized.
I_EndSession ==
    /\ id_outcome = "started"
    /\ id_outcome' = "ended"
    /\ fs_created' = fs_created \cup writer_finalize_paths(id_session_dir)
    /\ UNCHANGED <<id_raw, id_session_dir, outside_ids>>

NextIds ==
    \/ \E session_id \in RawIds : I_StartSession(session_id)
    \/ \E i \in 0..(MaxIdSegs - 1) : I_WriteFrame(i)
    \/ I_EndSession

SpecIds == Init /\ [][NextIds]_vars

\* ==================================== SessionWriter: segments, index, meta
\* Timestamps a Frame can carry (ts_mono_ns and ts_utc_ns together, in
\* ticks), NoTs for a Frame without timestamps, and frame ids.
Stamps == {0, 100, SegmentTicks - 1, SegmentTicks, 2 * SegmentTicks + 1}
FrameIds == {0, 5, 100}

\* round(t_rel_s, 3) of a time in ticks, in milliseconds.
round_ms(ticks) == (4 * ticks + 5) \div 10

\* _close_current_segment(mark_closed=True) on segment_info.
close_current_segment(info, cur) ==
    IF cur # NoSegment /\ cur \in DOMAIN info
    THEN [info EXCEPT ![cur].closed = TRUE]
    ELSE info

\* _ensure_segment(index): segment_info afterwards.
ensure_segment(info, cur, index) ==
    IF cur = index THEN info
    ELSE LET closed == close_current_segment(info, cur)
         IN [j \in DOMAIN closed \cup {index} |->
               IF j = index
               THEN [count |-> IF j \in DOMAIN closed THEN closed[j].count ELSE 0,
                     closed |-> FALSE]
               ELSE closed[j]]

\* _write_index: the payload dumped to index.json.
index_payload(info, start, latest, latest_idx) ==
    [written |-> TRUE,
     segments |-> info,
     duration_ms |-> IF start # NoTs /\ latest # NoTs /\ latest >= start
                     THEN round_ms(latest - start)
                     ELSE IF latest_idx >= 0
                          THEN ((latest_idx + 1) * 1000) \div fps
                          ELSE 0]

\* _write_meta: the payload dumped to meta.json.
meta_payload(st, et, count) ==
    [written |-> TRUE, start_time |-> st, end_time |-> et, frame_count |-> count]

\* The records the segment files of the session directory hold.
RECURSIVE records_on_disk(_)
records_on_disk(segs) ==
    IF DOMAIN segs = {} THEN 0
    ELSE LET j == CHOOSE i \in DOMAIN segs : TRUE
         IN Len(segs[j]) + records_on_disk([i \in DOMAIN segs \ {j} |-> segs[i]])

\* SessionWriter.__init__: on a new session directory, or on the directory
\* of a session that was finalized before (mkdir with exist_ok; the segment
\* files already there are left as they are).
SW_New ==
    /\ sw_op \in {"none", "finalize"}
    /\ sw_op = "finalize" => records_on_disk(seg_files) \in 1..MaxReopenRecords
    /\ sw_op' = "init"
    /\ current_segment_index' = NoSegment
    /\ segment_info' = <<>>
    /\ frame_count' = 0
    /\ latest_frame_idx' = -1
    /\ start_time' = <<"clock", utc_now>>
    /\ end_time' = NoTime
    /\ session_start_mono_ns' = NoTs
    /\ session_start_utc_ns' = NoTs
    /\ latest_mono_ns' = NoTs
    /\ latest_utc_ns' = NoTs
    /\ index_json' = index_payload(<<>>, NoTs, NoTs, -1)
    /\ meta_json' = meta_payload(<<"clock", utc_now>>, NoTime, 0)
    /\ UNCHANGED <<seg_files, utc_now, outside_writer>>

\* SessionWriter.write_frame(tracks, frame_idx, ts_mono_ns, ts_utc_ns) with a
\* non-empty list of tracks.
SW_WriteFrame(frame_idx, ts_mono_ns, ts_utc_ns) ==
    /\ sw_op # "none"
    /\ records_on_disk(seg_files) < MaxWrites
    /\ LET start_mono == IF ts_mono_ns # NoTs /\ session_start_mono_ns = NoTs
                         THEN ts_mono_ns ELSE session_start_mono_ns
           start_utc == IF ts_utc_ns # NoTs /\ session_start_utc_ns = NoTs
                        THEN ts_utc_ns ELSE session_start_utc_ns
           st == IF ts_utc_ns # NoTs /\ session_start_utc_ns = NoTs
                 THEN <<"ts", ts_utc_ns>> ELSE start_time
           raw == IF ts_mono_ns # NoTs THEN ts_mono_ns - start_mono
                  ELSE IF ts_utc_ns # NoTs THEN ts_utc_ns - start_utc
                  ELSE (frame_idx * TicksPerSecond) \div fps
           t_rel == IF raw < 0 THEN 0 ELSE raw
           segment_index == t_rel \div SegmentTicks
           info == ensure_segment(segment_info, current_segment_index, segment_index)
           counted == [info EXCEPT ![segment_index].count = @ + 1]
           event == [t_rel_ms |-> round_ms(t_rel), frame |-> frame_idx]
           idx == IF frame_idx > latest_frame_idx THEN frame_idx ELSE latest_frame_idx
           latest == IF ts_mono_ns # NoTs THEN ts_mono_ns ELSE latest_mono_ns
       IN /\ sw_op' = "write_frame"
          /\ session_start_mono_ns' = start_mono
          /\ session_start_utc_ns' = start_utc
          /\ latest_mono_ns' = latest
          /\ latest_utc_ns' = IF ts_utc_ns # NoTs THEN ts_utc_ns ELSE latest_utc_ns
          /\ start_time' = st
          /\ segment_info' = counted
          /\ current_segment_index' = segment_index
          /\ seg_files' = [j \in DOMAIN seg_files \cup {segment_index} |->
                             IF j = segment_index
                             THEN (IF j \in DOMAIN seg_files THEN seg_files[j] ELSE <<>>)
                                      \o <<event>>
                             ELSE seg_files[j]]
          /\ frame_count' = frame_count + 1
          /\ latest_frame_idx' = idx
          /\ index_json' = index_payload(counted, start_mono, latest, idx)
          /\ meta_json' = meta_payload(st, end_time, frame_count + 1)
    /\ UNCHANGED <<end_time, utc_now, outside_writer>>

\* SessionWriter.finalize.
SW_Finalize ==
    /\ sw_op # "none"
    /\ LET et == IF latest_utc_ns # NoTs THEN <<"ts", latest_utc_ns>>
                 ELSE <<"clock", utc_now>>
           info == close_current_segment(segment_info, current_segment_index)
       IN /\ sw_op' = "finalize"
          /\ end_time' = et
          /\ segment_info' = info
          /\ current_segment_index' = NoSegment
          /\ index_json' = index_payload(info, session_start_mono_ns,
                                         latest_mono_ns, latest_frame_idx)
          /\ meta_json' = meta_payload(start_time, et, frame_count)
    /\ UNCHANGED <<seg_files, frame_count, latest_frame_idx, session_start_mono_ns,
                   session_start_utc_ns, latest_mono_ns, latest_utc_ns,
                   start_time, utc_now, outside_writer>>

\* Time passes between two calls.
SW_Tick ==
    /\ utc_now < MaxClock
    /\ utc_now' = utc_now + 1
    /\ UNCHANGED <<sw_op, segment_info, current_segment_index, seg_files,
                   frame_count, latest_frame_idx, session_start_mono_ns,
                   session_start_utc_ns, latest_mono_ns, latest_utc_ns,
                   start_time, end_time, index_json, meta_json,
                   outside_writer>>

\* The timestamps of one Frame: both clocks read at the same instant, one
\* of them only, or neither.
SoloStamps == {0, SegmentTicks}
FrameStamps ==
    {<<ts, ts>> : ts \in Stamps} \cup {<<ts, NoTs>> : ts \in SoloStamps}
        \cup {<<NoTs, ts>> : ts \in SoloStamps} \cup {<<NoTs, NoTs>>}

NextWriter ==
    \/ SW_New
    \/ \E frame_idx \in FrameIds, ts \in FrameStamps :
          SW_WriteFrame(frame_idx, ts[1], ts[2])
    \/ SW_Finalize
    \/ SW_Tick

SpecWriter == Init /\ [][NextWriter]_vars

\* ============================================ _atomic_json_dump and a reader
\* json.dump writes the payload in DumpChunks write() calls; payload n is
\* the chunks <<n, 1>> .. <<n, DumpChunks>>.
payload_chunks(n) == [k \in 1..DumpChunks |-> <<n, k>>]

\* A dump that writes the destination itself.
tmp_path_in_place(path) == path

\* path.with_suffix(path.suffix + ".tmp").
tmp_path(path) ==
    IF path = "index.json" THEN "index.json.tmp" ELSE "meta.json.tmp"

\* _atomic_json_dump(path, payload), up to open(tmp_path, "w"): the
\* temporary file exists and is empty.
D_OpenTmp(path) ==
    /\ dump_pc = "idle"
    /\ dump_count < MaxDumps
    /\ dump_pc' = "open"
    /\ dump_path' = path
    /\ dump_payload' = dump_count + 1
    /\ dump_count' = dump_count + 1
    /\ files' = [files EXCEPT ![tmp_path(path)] = [exists |-> TRUE, data |-> <<>>]]
    /\ UNCHANGED <<reader_saw, outside_dump>>

\* One write() of json.dump; the with block closes the file after the last.
D_WriteChunk ==
    /\ dump_pc = "open"
    /\ LET tmp == tmp_path(dump_path)
           k == Len(files[tmp].data) + 1
       IN /\ files' = [files EXCEPT ![tmp].data = Append(@, payload_chunks(dump_payload)[k])]
          /\ dump_pc' = IF k = DumpChunks THEN "closed" ELSE "open"
    /\ UNCHANGED <<dump_path, dump_payload, dump_count, reader_saw, outside_dump>>

\* tmp_path.replace(path): one rename; a rename of a file onto itself
\* changes nothing.
D_Replace ==
    /\ dump_pc = "closed"
    /\ dump_pc' = "idle"
    /\ LET tmp == tmp_path(dump_path)
       IN files' = IF tmp = dump_path THEN files
                   ELSE [files EXCEPT ![dump_path] = files[tmp], ![tmp] = Absent]
    /\ UNCHANGED <<dump_path, dump_payload, dump_count, reader_saw, outside_dump>>

\* Another process reads index.json or meta.json.
D_Read(path) ==
    /\ files[path].exists
    /\ reader_saw' = files[path]
    /\ reader_saw' # reader_saw
    /\ UNCHANGED <<files, dump_pc, dump_path, dump_payload, dump_count, outside_dump>>

NextDump ==
    \/ \E path \in JsonFiles : D_OpenTmp(path)
    \/ D_WriteChunk
    \/ D_Replace
    \/ \E path \in JsonFiles : D_Read(path)

SpecDump == Init /\ [][NextDump]_vars

\* ======================================================== BoTSORTTracker
\* A detection is a class and a box; boxes are cells of the image, and two
\* boxes overlap by match_thresh or more exactly when they are the same cell.
Detections == {[class_id |-> "c1", bbox |-> "b1"],
               [class_id |-> "c1", bbox |-> "b2"],
               [class_id |-> "c2", bbox |-> "b1"]}
DetectionLists == UNION {[1..n -> Detections] : n \in 0..MaxDets}

\* A track kept one frame longer than max_age.
track_alive_one_longer(track, frame_idx) ==
    frame_idx - track.last_seen_frame <= max_age + 1

\* (self.frame_idx - t.last_seen_frame) <= self.max_age
track_alive(track, frame_idx) ==
    frame_idx - track.last_seen_frame <= max_age

\* KalmanBBoxFilter counters of a track: kf is None (present FALSE) or a
\* filter with its own hits and time_since_update; the filter's matrices,
\* age and hit_streak decide nothing in update and are left out.
NoKf == [present |-> FALSE, hits |-> 0, time_since_update |-> 0]

\* KalmanBBoxFilter.__init__: hits = 0, time_since_update = 0.
KalmanBBoxFilter == [present |-> TRUE, hits |-> 0, time_since_update |-> 0]

\* KalmanBBoxFilter.predict: time_since_update += 1.
kf_predict(kf) == [kf EXCEPT !.time_since_update = @ + 1]

\* KalmanBBoxFilter.update: hits += 1, time_since_update = 0.
kf_update(kf) == [kf EXCEPT !.hits = @ + 1, !.time_since_update = 0]

\* Fase 1: with use_kalman every track that has a filter is predicted and
\* takes the filter's time_since_update.
predict_tracks(tracks, use_kalman) ==
    [i \in DOMAIN tracks |->
        IF use_kalman /\ tracks[i].kf.present
        THEN [tracks[i] EXCEPT !.kf = kf_predict(@),
                               !.time_since_update = kf_predict(tracks[i].kf).time_since_update]
        ELSE tracks[i]]

\* Fase 2, "Match encontrado": with the filter the track's hits are the
\* filter's hits after its update, without it hits += 1; confirmed once
\* hits >= min_hits.
matched_track(track, det, frame_idx, use_kalman) ==
    LET kf == kf_update(IF track.kf.present THEN track.kf ELSE KalmanBBoxFilter)
        hits == IF use_kalman THEN kf.hits ELSE track.hits + 1
    IN [track EXCEPT !.kf = IF use_kalman THEN kf ELSE @,
                     !.hits = hits,
                     !.time_since_update = 0,
                     !.state = IF hits >= min_hits THEN "confirmed" ELSE @,
                     !.bbox = det.bbox,
                     !.last_seen_frame = frame_idx]

\* Fase 2, "Crear nuevo track": tentative, hits = 1, a fresh filter with
\* use_kalman.
new_track(track_id, det, frame_idx, use_kalman) ==
    [track_id |-> track_id,
     class_id |-> det.class_id,
     bbox |-> det.bbox,
     last_seen_frame |-> frame_idx,
     hits |-> 1,
     time_since_update |-> 0,
     state |-> "tentative",
     kf |-> IF use_kalman THEN KalmanBBoxFilter ELSE NoKf]

\* A track without a match in this frame is tentative again once its
\* time_since_update exceeds max_age // 3.
unmatched_track(track) ==
    [track EXCEPT !.state = IF track.time_since_update > max_age \div 3
                            THEN "tentative" ELSE @]

\* Fase 2, the inner loop: the index of the first unmatched track of the
\* detection's class whose box overlaps it, 0 when there is none.
best_track_idx(tracks, matched, det) ==
    LET hits == {idx \in DOMAIN tracks :
                    /\ tracks[idx].class_id = det.class_id
                    /\ tracks[idx].track_id \notin matched
                    /\ tracks[idx].bbox = det.bbox}
    IN IF hits = {} THEN 0 ELSE CHOOSE idx \in hits : \A j \in hits : idx <= j

\* Fase 2: detections associated in order; acc is [matched, updated, next_id].
RECURSIVE associate(_, _, _, _, _)
associate(dets, tracks, frame_idx, use_kalman, acc) ==
    IF dets = <<>> THEN acc
    ELSE LET det == Head(dets)
             idx == best_track_idx(tracks, acc.matched, det)
         IN IF idx > 0
            THEN associate(Tail(dets), tracks, frame_idx, use_kalman,
                    [acc EXCEPT !.matched = @ \cup {tracks[idx].track_id},
                                !.updated = Append(@,
                                    matched_track(tracks[idx], det, frame_idx, use_kalman))])
            ELSE associate(Tail(dets), tracks, frame_idx, use_kalman,
                    [acc EXCEPT !.updated = Append(@,
                                    new_track(acc.next_id, det, frame_idx, use_kalman)),
                                !.next_id = @ + 1])

\* The tracks of a list that pass a test, in order.
RECURSIVE keep_tracks(_, _, _)
keep_tracks(tracks, matched, frame_idx) ==
    IF tracks = <<>> THEN <<>>
    ELSE LET rest == keep_tracks(Tail(tracks), matched, frame_idx)
         IN IF /\ Head(tracks).track_id \notin matched
               /\ track_alive(Head(tracks), frame_idx)
            THEN <<unmatched_track(Head(tracks))>> \o rest
            ELSE rest

\* BoTSORTTracker.update(detections).
botsort_update(trk, dets) ==
    LET frame_idx == trk.frame_idx + 1
        tracks == predict_tracks(trk.tracks, trk.use_kalman)
    IN IF dets = <<>>
       THEN [trk EXCEPT !.frame_idx = frame_idx,
                        !.tracks = keep_tracks(tracks, {}, frame_idx)]
       ELSE LET acc == associate(dets, tracks, frame_idx, trk.use_kalman,
                          [matched |-> {}, updated |-> <<>>, next_id |-> trk.next_id])
            IN [trk EXCEPT !.next_id = acc.next_id,
                           !.frame_idx = frame_idx,
                           !.tracks = acc.updated
                              \o keep_tracks(tracks, acc.matched, frame_idx)]

K_Update(dets) ==
    /\ tracker.frame_idx < MaxTrackFrames
    /\ tracker' = botsort_update(tracker, dets)
    /\ UNCHANGED outside_tracker

\* BoTSORTTracker.__init__(use_kalman=...): use_kalman is True unless the
\* caller says otherwise; a tracker that has seen no frame is as constructed.
K_Construct(use_kalman) ==
    /\ tracker.frame_idx = 0
    /\ tracker.use_kalman # use_kalman
    /\ tracker' = [next_id |-> 1, frame_idx |-> 0, tracks |-> <<>>,
                   use_kalman |-> use_kalman]
    /\ UNCHANGED outside_tracker

\* BoTSORTTracker.reset.
K_Reset ==
    /\ tracker.frame_idx > 0
    /\ tracker' = [tracker EXCEPT !.next_id = 1, !.frame_idx = 0, !.tracks = <<>>]
    /\ UNCHANGED outside_tracker

NextTracker ==
    \/ \E use_kalman \in BOOLEAN : K_Construct(use_kalman)
    \/ \E dets \in DetectionLists : K_Update(dets)
    \/ K_Reset

SpecTracker == Init /\ [][NextTracker]_vars

\* ======================================================= model pool
\* src/pipeline/model_manager.py and src/server/model_loader.py: one
\* ModelManager serves every ConnectionHandler of the process.  A job is the
\* asyncio task of ModelLoadJob._load; it is "created" until its first step,
\* then "creator" (it registered the load task and awaits it inside
\* try/finally) or "waiter" (it awaits the task another job registered).
\* Task.cancel() on a job that awaits the load task cancels the load task as
\* well, while the thread started by asyncio.to_thread runs to its end.

\* A cancel that leaves the job running.
cancel_jobs_ignored(c) == pjobs

\* ModelLoadJob.cancel for the job of connection c: what becomes of the jobs.
cancel_jobs(c) ==
    {IF j.conn = c THEN [j EXCEPT !.must_cancel = TRUE] ELSE j :
        j \in {k \in pjobs : ~(k.conn = c /\ k.at = "created")}}

\* ... and of the load tasks: the task the job awaits is cancelled with it.
cancel_tasks(c) ==
    [p \in ModelPaths |->
        IF /\ mm_loading_tasks[p].state = "running"
           /\ \E j \in pjobs : /\ j.conn = c /\ j.path = p
                               /\ ~j.must_cancel
                               /\ j.at \in {"creator", "waiter"}
        THEN [mm_loading_tasks[p] EXCEPT !.state = "cancelled"]
        ELSE mm_loading_tasks[p]]

\* A callback that sets the model and writes nothing.
on_model_loaded_silent(cn, p) == [cn EXCEPT !.model = p]

\* ConnectionHandler._on_model_loaded / _on_model_error, on the record of one
\* connection.
on_model_loaded(cn, p) ==
    [cn EXCEPT !.model = p,
               !.log = IF cn.state # "closed"
                       THEN Append(@, <<"InitOk", p>>) ELSE @]

on_model_error(cn, p) ==
    [cn EXCEPT !.log = IF cn.state # "closed"
                       THEN Append(@, <<"Error:INTERNAL", p>>) ELSE @]

\* _handle_init, from the pool lookup on.  An Init served from the pool
\* returns before ModelLoadJob.start: the connection's job, if it has one,
\* is left running; it is marked superseded, a later Init having been
\* answered.
P_Init(c, p) ==
    /\ pconn[c].state = "open"
    /\ pconn[c].inits < MaxPoolInits
    /\ IF p \in mm_models
       THEN /\ pconn' = [pconn EXCEPT
                    ![c] = [on_model_loaded(@, p) EXCEPT !.inits = @ + 1]]
            /\ pjobs' = {IF j.conn = c THEN [j EXCEPT !.superseded = TRUE]
                                       ELSE j : j \in pjobs}
            /\ UNCHANGED mm_loading_tasks
       ELSE /\ pconn' = [pconn EXCEPT ![c].inits = @ + 1]
            /\ pjobs' = cancel_jobs(c) \cup
                        {[conn |-> c, path |-> p, at |-> "created",
                          must_cancel |-> FALSE, superseded |-> FALSE]}
            /\ mm_loading_tasks' = cancel_tasks(c)
    /\ UNCHANGED <<mm_models, mm_threads>>
    /\ UNCHANGED outside_pool

\* First step of a job: ModelLoadJob._load up to the await in
\* ModelManager.load.
P_JobRun(j) ==
    /\ j \in pjobs
    /\ j.at = "created"
    /\ LET p == j.path
           c == j.conn
           st == mm_loading_tasks[p].state
       IN  IF p \in mm_models \/ st = "done"
           THEN /\ pjobs' = pjobs \ {j}
                /\ pconn' = [pconn EXCEPT ![c] = on_model_loaded(@, p)]
                /\ UNCHANGED <<mm_loading_tasks, mm_threads>>
           ELSE IF st = "failed"
           THEN /\ pjobs' = pjobs \ {j}
                /\ pconn' = [pconn EXCEPT ![c] = on_model_error(@, p)]
                /\ UNCHANGED <<mm_loading_tasks, mm_threads>>
           ELSE IF st = "cancelled"
           THEN /\ pjobs' = pjobs \ {j}
                /\ UNCHANGED <<pconn, mm_loading_tasks, mm_threads>>
           ELSE IF st = "running"
           THEN /\ pjobs' = (pjobs \ {j}) \cup {[j EXCEPT !.at = "waiter"]}
                /\ UNCHANGED <<pconn, mm_loading_tasks, mm_threads>>
           ELSE /\ mm_threads[p] < MaxLoadThreads
                /\ pjobs' = (pjobs \ {j}) \cup {[j EXCEPT !.at = "creator"]}
                /\ mm_loading_tasks' = [mm_loading_tasks EXCEPT
                        ![p] = [state |-> "running", owner |-> c]]
                /\ mm_threads' = [mm_threads EXCEPT ![p] = @ + 1]
                /\ UNCHANGED pconn
    /\ UNCHANGED mm_models
    /\ UNCHANGED outside_pool

\* The thread of the registered load task returns or raises.
P_LoadFinished(p, ok) ==
    /\ mm_loading_tasks[p].state = "running"
    /\ mm_loading_tasks' = [mm_loading_tasks EXCEPT
            ![p].state = IF ok THEN "done" ELSE "failed"]
    /\ mm_threads' = [mm_threads EXCEPT ![p] = @ - 1]
    /\ UNCHANGED <<mm_models, pjobs, pconn>>
    /\ UNCHANGED outside_pool

\* A thread whose load task was cancelled comes to its end; nobody receives
\* its model.
P_OrphanFinished(p) ==
    /\ mm_threads[p] >
         (IF mm_loading_tasks[p].state = "running" THEN 1 ELSE 0)
    /\ mm_threads' = [mm_threads EXCEPT ![p] = @ - 1]
    /\ UNCHANGED <<mm_models, mm_loading_tasks, pjobs, pconn>>
    /\ UNCHANGED outside_pool

\* The load task is done: the jobs awaiting it are resumed, the creator first
\* (it caches the model and pops the entry in its finally).  The job that
\* ModelLoadJob.start created right after cancelling takes its first step
\* before the cancelled jobs are resumed (the event loop runs callbacks in
\* the order they were scheduled).
P_TaskWake(p) ==
    LET st == mm_loading_tasks[p].state
        awaiting == {j \in pjobs : j.path = p
                                   /\ j.at \in {"creator", "waiter"}}
        resumed(c) == \E j \in awaiting : j.conn = c /\ ~j.must_cancel
    IN  /\ st \in {"done", "failed", "cancelled"}
        /\ st = "cancelled" =>
             ~\E j \in pjobs, k \in awaiting :
                 j.at = "created" /\ k.conn = j.conn /\ k.must_cancel
        /\ pjobs' = pjobs \ awaiting
        /\ mm_loading_tasks' = [mm_loading_tasks EXCEPT ![p] = NoLoadingTask]
        /\ mm_models' =
             IF st = "done" /\ \E j \in awaiting :
                                  j.at = "creator" /\ ~j.must_cancel
             THEN mm_models \cup {p} ELSE mm_models
        /\ pconn' = [c \in Conns |->
             IF ~resumed(c) THEN pconn[c]
             ELSE IF st = "done" THEN on_model_loaded(pconn[c], p)
             ELSE IF st = "failed" THEN on_model_error(pconn[c], p)
             ELSE pconn[c]]
        /\ UNCHANGED mm_threads
        /\ UNCHANGED outside_pool

\* The connection ends: _cleanup cancels the job and awaits it ...
P_Close(c) ==
    /\ pconn[c].state = "open"
    /\ pconn' = [pconn EXCEPT ![c].state = "closing"]
    /\ pjobs' = cancel_jobs(c)
    /\ mm_loading_tasks' = cancel_tasks(c)
    /\ UNCHANGED <<mm_models, mm_threads>>
    /\ UNCHANGED outside_pool

\* ... and, the job over, closes the writer.
P_Closed(c) ==
    /\ pconn[c].state = "closing"
    /\ ~\E j \in pjobs : j.conn = c
    /\ pconn' = [pconn EXCEPT ![c].state = "closed"]
    /\ UNCHANGED <<mm_models, mm_loading_tasks, mm_threads, pjobs>>
    /\ UNCHANGED outside_pool

NextPool ==
    \/ \E c \in Conns, p \in ModelPaths : P_Init(c, p)
    \/ \E j \in pjobs : P_JobRun(j)
    \/ \E p \in ModelPaths, ok \in BOOLEAN : P_LoadFinished(p, ok)
    \/ \E p \in ModelPaths : P_OrphanFinished(p)
    \/ \E p \in ModelPaths : P_TaskWake(p)
    \/ \E c \in Conns : P_Close(c)
    \/ \E c \in Conns : P_Closed(c)

SpecPool == Init /\ [][NextPool]_vars

\* The event loop resumes every task that is ready, and a load running in its
\* thread returns or raises in the end.
SpecPoolFair ==
    /\ Init /\ [][NextPool]_vars
    /\ WF_vars(\E j \in pjobs : P_JobRun(j))
    /\ \A p \in ModelPaths :
          /\ WF_vars(\E ok \in BOOLEAN : P_LoadFinished(p, ok))
          /\ WF_vars(P_OrphanFinished(p))
          /\ WF_vars(P_TaskWake(p))

\* ======================================= worker_new.py: load and keep-alive
\* handle_init starts two tasks: _load_model_and_send_init_ok and
\* _send_keepalive_until_model_ready.

\* The loop condition of _send_keepalive_until_model_ready.
keepalive_condition == wn_model = "none" /\ ~wn_closing

N_Init(p) ==
    /\ ~wn_closing
    /\ Len(wn_log) < MaxWnLog
    /\ IF p = ""
       THEN /\ wn_log' = Append(wn_log, "Error:BAD_MESSAGE")
            /\ UNCHANGED <<wn_model, wn_loading_task, wn_keepalive_task>>
       ELSE IF wn_model = p
       THEN /\ wn_log' = Append(wn_log, "InitOk")
            /\ UNCHANGED <<wn_model, wn_loading_task, wn_keepalive_task>>
       ELSE /\ wn_model' = "none"
            /\ wn_loading_task' = p
            /\ wn_keepalive_task' = TRUE
            /\ UNCHANGED wn_log
    /\ UNCHANGED wn_closing
    /\ UNCHANGED outside_keepalive

\* _load_model_and_send_init_ok: the load returned.
N_LoadDone ==
    /\ wn_loading_task \in ModelPaths
    /\ Len(wn_log) < MaxWnLog
    /\ wn_model' = wn_loading_task
    /\ wn_loading_task' = "none"
    /\ wn_log' = Append(wn_log, "InitOk")
    /\ UNCHANGED <<wn_keepalive_task, wn_closing>>
    /\ UNCHANGED outside_keepalive

\* ... or raised: Error INTERNAL, and the model stays None.
N_LoadFail ==
    /\ wn_loading_task = "bad"
    /\ Len(wn_log) < MaxWnLog
    /\ wn_loading_task' = "none"
    /\ wn_log' = Append(wn_log, "Error:INTERNAL")
    /\ UNCHANGED <<wn_model, wn_keepalive_task, wn_closing>>
    /\ UNCHANGED outside_keepalive

\* One turn of the keep-alive loop.
N_KeepAlive ==
    /\ wn_keepalive_task
    /\ keepalive_condition
    /\ Len(wn_log) < MaxWnLog
    /\ wn_log' = Append(wn_log, "Heartbeat")
    /\ UNCHANGED <<wn_model, wn_loading_task, wn_keepalive_task, wn_closing>>
    /\ UNCHANGED outside_keepalive

\* The loop condition is false: the task ends.
N_KeepAliveExit ==
    /\ wn_keepalive_task
    /\ ~keepalive_condition
    /\ wn_keepalive_task' = FALSE
    /\ UNCHANGED <<wn_model, wn_loading_task, wn_closing, wn_log>>
    /\ UNCHANGED outside_keepalive

\* The finally of handle(): both tasks are cancelled.
N_Close ==
    /\ ~wn_closing
    /\ wn_closing' = TRUE
    /\ wn_loading_task' = "none"
    /\ wn_keepalive_task' = FALSE
    /\ UNCHANGED <<wn_model, wn_log>>
    /\ UNCHANGED outside_keepalive

NextKeepAlive ==
    \/ \E p \in InitModels : N_Init(p)
    \/ N_LoadDone
    \/ N_LoadFail
    \/ N_KeepAlive
    \/ N_KeepAliveExit
    \/ N_Close

SpecKeepAlive == Init /\ [][NextKeepAlive]_vars

\* ================================================ worker.py: idle timer
\* AIWorker.handle_connection, on_disconnect and idle_timeout, with the
\* finally block of ConnectionHandler.handle that calls on_disconnect.

\* AIWorker.on_disconnect: the handler is discarded; with no handler left the
\* idle timer is started.
on_disconnect(h) ==
    /\ aw_connections' = aw_connections \ {h}
    /\ aw_idle_timer' = IF aw_connections \ {h} = {}
                        THEN "sleeping" ELSE aw_idle_timer

\* handle_connection: a timer that exists is cancelled and forgotten, the
\* handler is registered and runs.
A_Connect ==
    /\ aw_accepted < MaxIdleConns
    /\ aw_accepted' = aw_accepted + 1
    /\ aw_idle_timer' = "none"
    /\ aw_connections' = aw_connections \cup {aw_accepted + 1}
    /\ aw_live' = aw_live \cup {aw_accepted + 1}
    /\ UNCHANGED aw_model
    /\ UNCHANGED outside_idle

\* handle_init: the model is (re)loaded when the configuration differs.
A_Init(h, p) ==
    /\ h \in aw_live
    /\ aw_model' = p
    /\ UNCHANGED <<aw_connections, aw_live, aw_accepted, aw_idle_timer>>
    /\ UNCHANGED outside_idle

\* The finally of handle(): writer.close(), wait_closed() returns,
\* on_disconnect runs.
A_Disconnect(h) ==
    /\ h \in aw_live
    /\ aw_live' = aw_live \ {h}
    /\ on_disconnect(h)
    /\ UNCHANGED <<aw_accepted, aw_model>>
    /\ UNCHANGED outside_idle

\* The finally of handle() when the connection was lost with an error (the
\* peer reset it): wait_closed() raises it again and on_disconnect is not
\* reached.
A_DisconnectReset(h) ==
    /\ h \in aw_live
    /\ aw_live' = aw_live \ {h}
    /\ UNCHANGED <<aw_connections, aw_accepted, aw_idle_timer, aw_model>>
    /\ UNCHANGED outside_idle

\* idle_timeout after its sleep: the model is unloaded when no handler is
\* registered.
A_IdleTimeout ==
    /\ aw_idle_timer = "sleeping"
    /\ aw_idle_timer' = "done"
    /\ aw_model' = IF aw_connections = {} THEN "none" ELSE aw_model
    /\ UNCHANGED <<aw_connections, aw_live, aw_accepted>>
    /\ UNCHANGED outside_idle

NextIdle ==
    \/ A_Connect
    \/ \E h \in aw_live, p \in ModelPaths : A_Init(h, p)
    \/ \E h \in aw_live : A_Disconnect(h)
    \/ \E h \in aw_live : A_DisconnectReset(h)
    \/ A_IdleTimeout

SpecIdle == Init /\ [][NextIdle]_vars

\* ============================================ worker.py: auto_tune_window
\* The tail of handle_frame, Result after Result: the latency is recorded,
\* the window tuned and, when it changed, a WindowUpdate sent.
U_Result(lat) ==
    /\ tu_results < MaxTuneResults
    /\ tu_results' = tu_results + 1
    /\ tu_latencies' = push_latency(tu_latencies, lat)
    /\ tu_window' = tuned_window(tu_latencies', tu_window)
    /\ tu_sent' = IF tu_window' # tu_window
                  THEN <<"WindowUpdate", tu_window'>> ELSE <<>>
    /\ UNCHANGED outside_tune

NextTune == \E lat \in Latencies : U_Result(lat)

SpecTune == Init /\ [][NextTune]_vars

\* ================================================ src/main.py: shutdown
\* main() awaits server.run() and calls server.shutdown() in its finally;
\* run() serves inside "async with server", whose exit closes the listener.
\* Every connection has the SessionService that _create_processor built for
\* it; WorkerServer.session_service is another one, which no connection uses.

\* SessionService.end on the record of one connection.
sd_end_session(cn) ==
    IF cn.cur = "none" THEN cn
    ELSE [cn EXCEPT !.cur = "none", !.finalized = @ \cup {cn.cur}]

\* handle_connection: a client is accepted.
G_Accept(c) ==
    /\ sd_listener = "open"
    /\ sd_conn[c].state = "none"
    /\ sd_conn' = [sd_conn EXCEPT ![c].state = "open"]
    /\ UNCHANGED <<sd_phase, sd_listener, sd_server_sessions>>
    /\ UNCHANGED outside_shutdown

\* A Frame of session sid: the connection's session becomes sid.
G_Frame(c, sid) ==
    /\ sd_conn[c].state = "open"
    /\ sd_conn[c].cur # sid
    /\ sd_conn' = [sd_conn EXCEPT ![c] = [sd_end_session(@) EXCEPT !.cur = sid]]
    /\ UNCHANGED <<sd_phase, sd_listener, sd_server_sessions>>
    /\ UNCHANGED outside_shutdown

\* End: the connection's session is finalized.
G_End(c) ==
    /\ sd_conn[c].state = "open"
    /\ sd_conn[c].cur # "none"
    /\ sd_conn' = [sd_conn EXCEPT ![c] = sd_end_session(@)]
    /\ UNCHANGED <<sd_phase, sd_listener, sd_server_sessions>>
    /\ UNCHANGED outside_shutdown

\* The client leaves, or the handler's task is cancelled when the event loop
\* is torn down: _cleanup ends the session.
G_Cleanup(c) ==
    /\ sd_conn[c].state = "open"
    /\ sd_conn' = [sd_conn EXCEPT ![c] = [sd_end_session(@) EXCEPT !.state = "closed"]]
    /\ UNCHANGED <<sd_phase, sd_listener, sd_server_sessions>>
    /\ UNCHANGED outside_shutdown

\* Ctrl-C: main()'s task is cancelled inside serve_forever().
G_Interrupt ==
    /\ sd_phase = "serving"
    /\ sd_phase' = "interrupted"
    /\ UNCHANGED <<sd_listener, sd_server_sessions, sd_conn>>
    /\ UNCHANGED outside_shutdown

\* The exit of "async with server": the listener is closed.
G_CloseListener ==
    /\ sd_phase = "interrupted"
    /\ sd_listener' = "closed"
    /\ sd_phase' = "run_left"
    /\ UNCHANGED <<sd_server_sessions, sd_conn>>
    /\ UNCHANGED outside_shutdown

\* WorkerServer.shutdown: end_all on the server's own SessionService.
G_Shutdown ==
    /\ sd_phase = "run_left"
    /\ sd_server_sessions' = {}
    /\ sd_phase' = "shutdown_done"
    /\ UNCHANGED <<sd_listener, sd_conn>>
    /\ UNCHANGED outside_shutdown

NextShutdown ==
    \/ \E c \in Conns : G_Accept(c)
    \/ \E c \in Conns, sid \in TwoDirs : G_Frame(c, sid)
    \/ \E c \in Conns : G_End(c)
    \/ \E c \in Conns : G_Cleanup(c)
    \/ G_Interrupt
    \/ G_CloseListener
    \/ G_Shutdown

SpecShutdown == Init /\ [][NextShutdown]_vars

\* ============================== src/server: two handlers, one ModelManager
\* Each connection has its own FrameProcessor (current_model_path,
\* class_filter_ids); the ModelManager, with its conf_threshold and its pool,
\* is the server's.  Thresholds are in tenths; 0 is the proto3 default of an
\* Init that carries none, 12 lies outside (0, 1].
ConfThresholds == {0, 3, 12}

\* _handle_init, "Aplicar umbral de confianza": applied only within (0, 1].
init_conf_threshold(current, conf_th) ==
    IF 0 < conf_th /\ conf_th <= 10 THEN conf_th ELSE current

\* _handle_init.  An empty path is answered BAD_MESSAGE before anything is
\* applied; a non-empty classes_filter calls processor.set_class_filter, which
\* FrameProcessor does not have: the AttributeError ends the connection.
X_Init(c, model_path, conf_th, has_classes) ==
    /\ iso_conn[c].state = "open"
    /\ iso_conn[c].rx < MaxIsoRx
    /\ IF model_path = ""
       THEN /\ iso_conn' = [iso_conn EXCEPT ![c].rx = @ + 1]
            /\ UNCHANGED <<iso_conf_threshold, iso_models>>
       ELSE IF has_classes
       THEN /\ iso_conn' = [iso_conn EXCEPT ![c].rx = @ + 1,
                                            ![c].state = "closed",
                                            ![c].loading = "none"]
            /\ UNCHANGED <<iso_conf_threshold, iso_models>>
       ELSE /\ iso_conf_threshold' =
                  init_conf_threshold(iso_conf_threshold, conf_th)
            /\ iso_conn' = [iso_conn EXCEPT
                  ![c].rx = @ + 1,
                  ![c].current_model_path =
                      IF model_path \in iso_models THEN model_path ELSE @,
                  ![c].loading =
                      IF model_path \in iso_models THEN @ ELSE model_path]
            /\ UNCHANGED iso_models
    /\ UNCHANGED outside_iso

\* The load a connection started completes: _on_model_loaded.
X_Loaded(c) ==
    /\ iso_conn[c].state = "open"
    /\ iso_conn[c].loading # "none"
    /\ iso_models' = iso_models \cup {iso_conn[c].loading}
    /\ iso_conn' = [iso_conn EXCEPT
          ![c].current_model_path = iso_conn[c].loading,
          ![c].loading = "none"]
    /\ UNCHANGED iso_conf_threshold
    /\ UNCHANGED outside_iso

\* _handle_frame and FrameProcessor.process_frame: without a model the Frame
\* is answered MODEL_NOT_READY; otherwise model_manager.infer runs the
\* processor's model with the manager's conf_threshold and the processor's
\* class filter.
X_Frame(c) ==
    /\ iso_conn[c].state = "open"
    /\ iso_conn[c].rx < MaxIsoRx
    /\ iso_conn' = [iso_conn EXCEPT
          ![c].rx = @ + 1,
          ![c].inferred =
              IF iso_conn[c].current_model_path = "none" THEN <<>>
              ELSE <<iso_conn[c].current_model_path, iso_conf_threshold,
                     iso_conn[c].class_filter_ids>>]
    /\ UNCHANGED <<iso_conf_threshold, iso_models>>
    /\ UNCHANGED outside_iso

\* The client leaves: _cleanup cancels the load in progress.
X_Close(c) ==
    /\ iso_conn[c].state = "open"
    /\ iso_conn' = [iso_conn EXCEPT ![c].state = "closed",
                                    ![c].loading = "none"]
    /\ UNCHANGED <<iso_conf_threshold, iso_models>>
    /\ UNCHANGED outside_iso

NextIso ==
    \/ \E c \in Conns, model_path \in ModelPaths \cup {""},
          conf_th \in ConfThresholds, has_classes \in BOOLEAN :
          X_Init(c, model_path, conf_th, has_classes)
    \/ \E c \in Conns : X_Loaded(c)
    \/ \E c \in Conns : X_Frame(c)
    \/ \E c \in Conns : X_Close(c)

SpecIso == Init /\ [][NextIso]_vars

\* ===================================== src/transport/framing.py FrameWriter
\* One StreamWriter per connection, written by up to three tasks of the same
\* event loop.  A task runs until it awaits; write_frame awaits only in
\* writer.drain().

\* struct.pack("<I", length): four bytes, least significant first.
pack_length(length) ==
    <<length % 256, (length \div 256) % 256,
      (length \div 65536) % 256, (length \div 16777216) % 256>>

\* struct.unpack("<I", ...) on the reader's side.
unpack_length(b) == b[1] + 256 * b[2] + 65536 * b[3] + 16777216 * b[4]

\* An encoded message of a given length; its bytes may look like a prefix.
payload(length) == [i \in 1..length |-> IF i = 1 THEN length ELSE 0]

\* The bytes of seq, each marked as written by call n.
written_by(n, seq) == [i \in DOMAIN seq |-> <<n, seq[i]>>]

\* A write_frame that awaits between the prefix and the data.
before_drain_prefix_only(data) == pack_length(Len(data))

\* write_frame up to its await: writer.write(prefix), writer.write(data).
before_drain(data) == pack_length(Len(data)) \o data

\* write_frame(data) by task t, up to writer.drain(); pending is what the
\* tasks suspended in write_frame have left to write.
write_frame(t, data, pending) ==
    LET whole == pack_length(Len(data)) \o data
        now == before_drain(data)
    IN /\ sk_writes < MaxSockWrites
       /\ sk_writes' = sk_writes + 1
       /\ sk_sock' = sk_sock \o written_by(sk_writes + 1, now)
       /\ sk_pending' = [pending EXCEPT ![t] =
              written_by(sk_writes + 1, SubSeq(whole, Len(now) + 1, Len(whole)))]

\* FrameReader.read_frame, message after message: the stream is a sequence
\* of complete frames, each prefix followed by as many bytes as it says, all
\* of one write_frame call.
RECURSIVE well_framed(_)
well_framed(sock) ==
    IF sock = <<>> THEN TRUE
    ELSE IF Len(sock) < 4 THEN FALSE
    ELSE LET length == unpack_length([i \in 1..4 |-> sock[i][2]])
         IN /\ Len(sock) >= 4 + length
            /\ \A i \in 1..(4 + length) : sock[i][1] = sock[1][1]
            /\ well_framed(SubSeq(sock, 5 + length, Len(sock)))

\* handle(): the loop answers a message (Result, Error, Heartbeat, InitOk of
\* a cached model).
M_MainWrite(length) ==
    /\ sk_pc["main"] = "idle"
    /\ write_frame("main", payload(length), sk_pending)
    /\ sk_pc' = [sk_pc EXCEPT !["main"] = "drain"]
    /\ UNCHANGED sk_loading
    /\ UNCHANGED outside_socket

\* _handle_init for a model that is not cached: the load job and the
\* HeartbeatTask are started; nothing is written.
M_MainStartsLoad ==
    /\ sk_pc["main"] = "idle"
    /\ ~sk_loading
    /\ sk_pc["loader"] = "off"
    /\ sk_pc["keepalive"] = "off"
    /\ sk_loading' = TRUE
    /\ sk_pc' = [sk_pc EXCEPT !["loader"] = "idle", !["keepalive"] = "idle"]
    /\ UNCHANGED <<sk_sock, sk_pending, sk_writes>>
    /\ UNCHANGED outside_socket

\* HeartbeatTask._run: while the load is in progress a Heartbeat is written.
M_KeepAliveWrite(length) ==
    /\ sk_pc["keepalive"] = "idle"
    /\ sk_loading
    /\ write_frame("keepalive", payload(length), sk_pending)
    /\ sk_pc' = [sk_pc EXCEPT !["keepalive"] = "drain"]
    /\ UNCHANGED sk_loading
    /\ UNCHANGED outside_socket

\* The load is over: _on_model_loaded / _on_model_error stops the
\* HeartbeatTask (cancelled wherever it is suspended) and writes InitOk or
\* the Error.
M_LoaderWrite(length) ==
    /\ sk_pc["loader"] = "idle"
    /\ sk_loading
    /\ write_frame("loader", payload(length),
                   [sk_pending EXCEPT !["keepalive"] = <<>>])
    /\ sk_pc' = [sk_pc EXCEPT !["loader"] = "drain", !["keepalive"] = "off"]
    /\ sk_loading' = FALSE
    /\ UNCHANGED outside_socket

\* writer.drain() returns to task t, which goes on with the rest of its
\* write_frame.
M_Drained(t) ==
    /\ sk_pc[t] = "drain"
    /\ sk_sock' = sk_sock \o sk_pending[t]
    /\ sk_pending' = [sk_pending EXCEPT ![t] = <<>>]
    /\ sk_pc' = [sk_pc EXCEPT ![t] = IF t = "loader" THEN "off" ELSE "idle"]
    /\ UNCHANGED <<sk_writes, sk_loading>>
    /\ UNCHANGED outside_socket

NextSocket ==
    \/ \E length \in 1..MaxPayloadLen : M_MainWrite(length)
    \/ M_MainStartsLoad
    \/ \E length \in 1..MaxPayloadLen : M_KeepAliveWrite(length)
    \/ \E length \in 1..MaxPayloadLen : M_LoaderWrite(length)
    \/ \E t \in SockTasks : M_Drained(t)

SpecSocket == Init /\ [][NextSocket]_vars

\* ================================================================== claims

\* C1: in every reachable state of the worker.py handler (any sequence of
\* Frames accepted, Results sent, Error replies and auto-tune window
\* changes) in_flight never exceeds window_size, where in_flight is the
\* handler's inflight counter and equals frames accepted minus results sent
\* (plus the one frame whose Result is out and whose credit is being released).
C1_InFlightWithinWindow ==
    /\ inflight <= window_size
    /\ frames_accepted - results_sent <= window_size
    /\ inflight = frames_accepted - results_sent + (IF w_pc = "release" THEN 1 ELSE 0)

\* C1 witness: the window was tuned down and every credit of it is taken.
C1_Witness ==
    /\ w_pc = "idle"
    /\ window_size < initial_window_size
    /\ inflight = window_size

\* C2 (as claimed): with a window of 2 free credits, the third of three
\* Frames written back-to-back is answered with Error BACKPRESSURE_TIMEOUT,
\* and once the handler is idle again the credits are available again.
C2_ThirdOfBurstTimesOut ==
    (w_burst_at = <<2, 0>> /\ BurstLen - w_burst = 3)
        => /\ w_log = <<"Error:BACKPRESSURE_TIMEOUT">>
           /\ w_pc = "idle" => inflight = 0

\* C3: in READY (initialized, writer open) a well-formed Frame read when
\* in_flight equals window_size is answered with Error BACKPRESSURE_TIMEOUT
\* and nothing else: it is neither decoded nor inferred, no Result is sent,
\* and in_flight, window_size and the latency history are unchanged.
C3_NoCreditFrameRejected ==
    [][ ( /\ rx_count' = rx_count + 1
          /\ W_Valid(w_last')
          /\ w_last'.var = "frame"
          /\ initialized
          /\ ~writer_closed
          /\ inflight = window_size )
        => ( /\ w_log' = <<"Error:BACKPRESSURE_TIMEOUT">>
             /\ w_pc' = "idle"
             /\ inflight' = inflight
             /\ window_size' = window_size
             /\ recent_latencies' = recent_latencies
             /\ frames_accepted' = frames_accepted
             /\ results_sent' = results_sent ) ]_vars

\* C3 witness: a Frame was just refused for lack of credit.
C3_Witness ==
    /\ initialized
    /\ w_last.var = "frame"
    /\ inflight = window_size
    /\ w_log = <<"Error:BACKPRESSURE_TIMEOUT">>

\* C4: a Frame that takes a credit and is answered with a Result raises
\* in_flight by one when accepted and gives exactly that one credit back
\* after the Result is sent; after Init followed by one valid Frame
\* in_flight is back to 0.
C4_ResultReleasesOneCredit ==
    /\ [][ /\ (w_pc' = "release" => inflight' = inflight + 1)
           /\ (w_pc = "release" => (inflight' = inflight - 1 /\ w_pc' = "idle")) ]_vars
    /\ []((rx_count = 2 /\ frames_accepted = 1 /\ results_sent = 1 /\ w_pc = "idle")
            => inflight = 0)

\* C4 witness: Init, then one Frame whose Result was sent and whose credit
\* was released.
C4_Witness ==
    /\ rx_count = 2
    /\ results_sent = 1
    /\ w_pc = "idle"
    /\ w_log = <<"accept", "decode", "infer", "Result", "release">>
    /\ inflight = 0

\* C5 (as claimed): a handler that has handled no Init answers a first
\* well-formed Frame, End or Heartbeat with Error BAD_SEQUENCE, and the
\* message has no other effect (no session is created or ended, no model set).
C5_FirstNonInitIsBadSequence ==
    [][ ( /\ s_rx = 0
          /\ s_rx' = 1
          /\ s_last'.ver = PROTOCOL_VERSION
          /\ get_expected_msg_type(s_last') = s_last'.mt
          /\ s_last'.var \in {"frame", "end", "hb"} )
        => ( /\ s_log' = <<"Error:BAD_SEQUENCE">>
             /\ UNCHANGED <<current_model_path, loader_task, current_session_id,
                            session_dirs, sessions_finalized>> ) ]_vars

\* C6 (as claimed): an envelope with protocol_version other than 1, read in
\* any handler state with the writer open, is answered with exactly one Error
\* VERSION_UNSUPPORTED and the handler closes the connection.
C6_VersionMismatchClosesWithOneError ==
    [][ ( /\ rx_count' = rx_count + 1
          /\ w_last'.ver # PROTOCOL_VERSION
          /\ ~writer_closed )
        => ( /\ w_log' = <<"Error:VERSION_UNSUPPORTED", "close">>
             /\ w_pc' = "closed" ) ]_vars

\* C7 (as claimed): an envelope of version 1 whose msg_type does not match
\* the variant it carries is answered with Error BAD_MESSAGE and its payload
\* is not dispatched: model, load and session state stay as they were.
C7_MismatchedMsgTypeIsBadMessage ==
    [][ ( /\ s_rx' = s_rx + 1
          /\ s_last'.ver = PROTOCOL_VERSION
          /\ get_expected_msg_type(s_last') # s_last'.mt )
        => ( /\ s_log' = <<"Error:BAD_MESSAGE">>
             /\ UNCHANGED <<current_model_path, loader_task, current_session_id,
                            last_closed_session_id, session_dirs,
                            sessions_finalized>> ) ]_vars

\* C8 (as claimed): after a reply of Error UNSUPPORTED_FORMAT, INVALID_FRAME,
\* BACKPRESSURE_TIMEOUT or MODEL_NOT_READY the connection stays open and the
\* next well-formed, decodable Frame is handled normally and gets its Result.
C8_RecoverableErrorsKeepServing ==
    [][ ( /\ w_log # <<>>
          /\ w_log[Len(w_log)] \in {"Error:UNSUPPORTED_FORMAT", "Error:INVALID_FRAME",
                                    "Error:BACKPRESSURE_TIMEOUT", "Error:MODEL_NOT_READY"} )
        => ( /\ w_pc = "idle"
             /\ ( ( /\ rx_count' = rx_count + 1
                    /\ W_Valid(w_last')
                    /\ w_last'.var = "frame"
                    /\ w_last'.fk = "ok" )
                  => w_log' = <<"accept", "decode", "infer", "Result">> ) ) ]_vars

\* C9 (as claimed): once Error BAD_SEQUENCE, VERSION_UNSUPPORTED,
\* FRAME_TOO_LARGE or INTERNAL was emitted the connection is closed: no
\* further message is read and processed.
C9_FatalErrorsEndTheConnection ==
    [][ (\E i \in DOMAIN w_log :
            w_log[i] \in {"Error:BAD_SEQUENCE", "Error:VERSION_UNSUPPORTED",
                          "Error:FRAME_TOO_LARGE", "Error:INTERNAL"})
        => rx_count' = rx_count ]_vars

\* C10 (as claimed): after a well-formed End was handled the connection is
\* still open: a following Init naming a loadable model is honoured with InitOk.
C10_EndLeavesConnectionOpen ==
    [][ ( /\ w_pc = "idle"
          /\ W_Valid(w_last)
          /\ w_last.var = "end"
          /\ rx_count' = rx_count + 1
          /\ W_Valid(w_last')
          /\ w_last'.var = "init"
          /\ w_last'.model \in ModelPaths )
        => w_log' = <<"InitOk">> ]_vars

C12_OneSessionFinalizedBeforeNext ==
    /\ [](active_sessions = {current_session_id} \ {"none"})
    /\ [][ ( /\ s_rx' = s_rx + 1
             /\ s_last'.ver = PROTOCOL_VERSION
             /\ ~s_is_end(s_last')
             /\ s_last'.var = "frame"
             /\ current_model_path # "none"
             /\ current_session_id # "none"
             /\ s_last'.sid \notin {"", current_session_id} )
           => ( /\ Len(session_events') >= 1
                /\ session_events'[1] = <<"finalize", current_session_id>>
                /\ current_session_id \in sessions_finalized'
                /\ active_sessions' \subseteq {s_last'.sid}
                /\ valid_session_id(s_last'.sid)
                     => ( /\ Len(session_events') >= 2
                          /\ session_events'[2] = <<"create", s_last'.sid>>
                          /\ s_last'.sid \in session_dirs' ) ) ]_vars

\* C12 witness: a Frame of session s2 arrived while s1 was active.
C12_Witness ==
    /\ session_events = << <<"finalize", "s1">>, <<"create", "s2">> >>
    /\ current_session_id = "s2"
    /\ active_sessions = {"s2"}

\* C13: every session that became active is finalized on End, on a Frame
\* with a different or an empty session_id, and when the connection closes
\* (peer close, rejected message or handler error); no session directory is
\* left unfinalized except the active one, and none once the handler closed.
C13_SessionsAlwaysFinalized ==
    /\ [](/\ \A id \in session_dirs : id = current_session_id \/ id \in sessions_finalized
          /\ s_pc = "closed" => current_session_id = "none")
    /\ [][ ( /\ current_session_id # "none"
             /\ \/ s_pc' = "closed"
                \/ /\ s_rx' = s_rx + 1
                   /\ s_last'.ver = PROTOCOL_VERSION
                   /\ \/ s_is_end(s_last')
                      \/ /\ s_last'.var = "frame"
                         /\ current_model_path # "none"
                         /\ s_last'.sid # current_session_id )
           => ( /\ current_session_id \in sessions_finalized'
                /\ current_session_id' # current_session_id
                /\ \E i \in DOMAIN session_events' :
                      session_events'[i] = <<"finalize", current_session_id>> ) ]_vars

\* C13 witness: the peer closed while session s1 was active.
C13_Witness ==
    /\ s_pc = "closed"
    /\ s_log = <<"eof", "close">>
    /\ session_events = << <<"finalize", "s1">> >>
    /\ "s1" \in sessions_finalized

\* C20: in every session the track ids allocated are 1, 2, 3, ... in
\* allocation order, because the tracker is reset whenever a session ends
\* and runs only while a session is active.
C20_TrackIdsFromOne ==
    /\ \A i \in DOMAIN track_alloc : track_alloc[i] = i
    /\ current_session_id # "none" => next_id = Len(track_alloc) + 1

\* C20 witness: a second session on the connection has allocated three ids
\* after a first session that allocated some.
C20_Witness ==
    /\ current_session_id = "s2"
    /\ "s1" \in sessions_finalized
    /\ track_alloc = <<1, 2, 3>>
    /\ s_rx = MaxConnRx

\* C14: at most one session writer writes into a given session directory,
\* for every interleaving of the messages of two connections, including two
\* connections that carry the same session_id.
C14_OneWriterPerDirectory ==
    \A d \in TwoDirs :
        Cardinality({c \in Conns : conns[c].session_writer = d}) <= 1

\* C15: starting a session rejects every id that, once trimmed, is empty, is
\* "." or "..", or contains "/" or a backslash, and creates nothing on disk
\* for it; for an accepted id every path the session creates or writes lies
\* inside <output_dir>/<trimmed id>/.
C15_RejectedIdsCreateNothing ==
    LET trimmed == strip(id_raw)
        bad == \/ trimmed = <<>>
               \/ trimmed = <<".">>
               \/ trimmed = <<".", ".">>
               \/ \E i \in DOMAIN trimmed : trimmed[i] = "/" \/ trimmed[i] = "\\"
        inside(path) == /\ ~path.abs
                        /\ path.up = 0
                        /\ Len(path.comps) >= 1
                        /\ path.comps[1] = trimmed
    IN id_outcome # "none" =>
         /\ bad => (id_outcome = "ValueError" /\ fs_created = {})
         /\ ~bad => (id_outcome # "ValueError" /\ \A path \in fs_created : inside(path))

\* C15 witness: an id with surrounding blanks was accepted, and the session
\* wrote two segments and was finalized.
C15_Witness ==
    /\ id_raw = <<" ", "a", " ">>
    /\ id_outcome = "ended"
    /\ Cardinality(fs_created) = 8

\* C16: every record of seg-NNNN.jsonl carries a stored t_rel_s with
\* NNNN * D <= t_rel_s < (NNNN + 1) * D, D the segment duration.
C16_RecordsWithinTheirSegment ==
    \A i \in DOMAIN seg_files :
        \A k \in DOMAIN seg_files[i] :
            /\ i * segment_duration_s * 1000 <= seg_files[i][k].t_rel_ms
            /\ seg_files[i][k].t_rel_ms < (i + 1) * segment_duration_s * 1000

\* C17: in index.json a segment's closed flag is true once the writer moved
\* to another segment and stays true from then on; at most the current
\* segment has closed = false; after finalize every segment is closed.
C17_ClosedSegmentsStayClosed ==
    /\ [](index_json.written =>
            \A i \in DOMAIN index_json.segments :
                ~index_json.segments[i].closed => i = current_segment_index)
    /\ []((sw_op = "finalize" /\ index_json.written) =>
            \A i \in DOMAIN index_json.segments : index_json.segments[i].closed)
    /\ [][ index_json.written =>
             \A i \in DOMAIN index_json.segments :
                 index_json.segments[i].closed =>
                     /\ i \in DOMAIN index_json'.segments
                     /\ index_json'.segments[i].closed ]_vars

\* C19: finalizing again a writer that was just finalized leaves index.json,
\* meta.json and the segment files exactly as the first finalize left them.
C19_FinalizeIsIdempotent ==
    [][ (sw_op = "finalize" /\ sw_op' = "finalize")
          => (/\ index_json' = index_json
              /\ meta_json' = meta_json
              /\ seg_files' = seg_files) ]_vars

\* C18: a reader of index.json or meta.json sees the complete old or the
\* complete new contents, never a partial file: a destination is only ever
\* replaced by the rename of a fully written *.tmp sibling.
C18_ReadersSeeCompleteFiles ==
    /\ [](reader_saw.exists =>
            \E n \in 1..MaxDumps : reader_saw.data = payload_chunks(n))
    /\ [](\A path \in JsonFiles :
            files[path].exists =>
                \E n \in 1..MaxDumps : files[path].data = payload_chunks(n))
    /\ [][ \A path \in JsonFiles :
             files'[path] # files[path] =>
                 \E tmp \in TmpFiles :
                     /\ \E n \in 1..MaxDumps : files[tmp].data = payload_chunks(n)
                     /\ files'[path] = files[tmp]
                     /\ ~files'[tmp].exists ]_vars

\* C18 witness: the reader holds the complete previous contents of index.json
\* while the temporary sibling of the next dump is half written.
C18_Witness ==
    /\ dump_pc = "open"
    /\ dump_path = "index.json"
    /\ Len(files["index.json.tmp"].data) = 1
    /\ files["index.json"].data = payload_chunks(1)
    /\ reader_saw = files["index.json"]

\* C21: after every tracker update, for any sequence of detection lists,
\* every track the tracker holds has frame_idx - last_seen_frame <= max_age:
\* a track that exceeds max_age is evicted by that same update.
C21_TracksWithinMaxAge ==
    \A i \in DOMAIN tracker.tracks :
        tracker.frame_idx - tracker.tracks[i].last_seen_frame <= max_age

\* C21 witness: track 1 was evicted while a younger track, last seen exactly
\* max_age frames ago, is still held.
C21_Witness ==
    /\ tracker.next_id > 2
    /\ \A i \in DOMAIN tracker.tracks : tracker.tracks[i].track_id # 1
    /\ \E i \in DOMAIN tracker.tracks :
          tracker.frame_idx - tracker.tracks[i].last_seen_frame = max_age

\* C22: whatever the interleaving of load(path) calls of several connections,
\* at most one background load of a path runs at a time.
C22_OneBackgroundLoadPerPath ==
    \A p \in ModelPaths : mm_threads[p] <= 1

\* C23: when a connection closes while its model load is in progress, the load
\* job is cancelled, nothing (no InitOk, no load Error) is written to the
\* connection from then on, and once the connection is closed the pool holds
\* no in-progress entry created by its load.
C23_CloseCancelsLoad ==
    /\ [](\A j \in pjobs : pconn[j.conn].state # "open" => j.must_cancel)
    /\ [](\A c \in Conns : pconn[c].state = "closed" =>
            /\ ~\E j \in pjobs : j.conn = c
            /\ \A p \in ModelPaths : mm_loading_tasks[p].owner # c)
    /\ [][\A c \in Conns : pconn[c].state # "open" =>
              pconn'[c].log = pconn[c].log]_vars

\* A closed its connection while its load of m1 ran: nothing was written, the
\* entry is gone, the thread still runs.
C23_Witness ==
    /\ pconn["A"].state = "closed"
    /\ pconn["A"].inits = 1
    /\ pconn["A"].log = <<>>
    /\ pconn["B"].inits = 0
    /\ mm_threads["m1"] = 1
    /\ mm_loading_tasks["m1"] = NoLoadingTask

\* C24: after an Init for a model that is not cached, if the load succeeds and
\* the connection stays open (and no later Init starts another load), the
\* handler eventually writes the InitOk of that Init; an InitOk is written
\* only once the load has completed, one reply per step and never more
\* replies than Init messages.
C24_InitOkAfterLoad ==
    /\ \A c \in Conns, p \in ModelPaths :
          ( /\ \E j \in pjobs : j.conn = c /\ j.path = p /\ ~j.must_cancel
            /\ pconn[c].state = "open" )
          ~> ( \/ /\ ~\E j \in pjobs :
                        j.conn = c /\ j.path = p /\ ~j.must_cancel
                  /\ pconn[c].model = p
                  /\ Len(pconn[c].log) > 0
                  /\ pconn[c].log[Len(pconn[c].log)] = <<"InitOk", p>>
               \/ pconn[c].state # "open"
               \/ \E j \in pjobs : j.conn = c /\ j.path # p /\ ~j.must_cancel
               \/ mm_loading_tasks[p].state \in {"failed", "cancelled"} )
    /\ [](\A c \in Conns : Len(pconn[c].log) <= pconn[c].inits)
    /\ [][\A c \in Conns : pconn'[c].log # pconn[c].log =>
              /\ Len(pconn'[c].log) = Len(pconn[c].log) + 1
              /\ \A p \in ModelPaths :
                    pconn'[c].log[Len(pconn'[c].log)] = <<"InitOk", p>> =>
                        \/ p \in mm_models
                        \/ mm_loading_tasks[p].state = "done"]_vars

\* A's Init of the uncached m1 was answered InitOk after the load.
C24_Witness ==
    /\ pconn["A"].log = <<<<"InitOk", "m1">>>>
    /\ pconn["A"].inits = 1
    /\ pconn["A"].state = "open"
    /\ pconn["B"].inits = 0
    /\ mm_models = {"m1"}

\* C25: a keep-alive Heartbeat is written only while a model load is in
\* progress: none once the load completed (InitOk or load Error sent) or the
\* connection closed.
C25_HeartbeatOnlyWhileLoading ==
    [][(Len(wn_log') = Len(wn_log) + 1
          /\ wn_log'[Len(wn_log')] = "Heartbeat")
       => (wn_loading_task # "none" /\ ~wn_closing)]_vars

C27_FrameBeforeLoadNotReady ==
    [][ ( /\ s_rx' = s_rx + 1
          /\ s_last'.var = "frame"
          /\ s_last'.ver = PROTOCOL_VERSION
          /\ ~s_is_end(s_last')
          /\ (current_model_path = "none" \/ loader_task # "none") )
        => s_log' = <<"Error:MODEL_NOT_READY">> ]_vars

\* C28: the idle countdown starts when the last connection ends: whenever no
\* connection is active and a model is loaded, the idle timer is running; and
\* the model is unloaded only by the timer, with no connection active.
C28_IdleTimerEvictsWhenUnused ==
    /\ [](aw_live = {} /\ aw_model # "none" => aw_idle_timer = "sleeping")
    /\ [][aw_model # "none" /\ aw_model' = "none" =>
            aw_idle_timer = "sleeping" /\ aw_live = {}]_vars

C30_SessionsFinalizedBeforeListenerCloses ==
    sd_listener = "closed" => \A c \in Conns : sd_conn[c].cur = "none"

\* C31: a spawned track starts with hits = 1, every update in which the track
\* is matched increments its hits by exactly one, and the track is confirmed
\* in the first update where hits >= min_hits, with or without the Kalman
\* filter: in every update step, a new track has hits = 1 and a track matched
\* in that update has one hit more than before.
C31_MatchedUpdateIncrementsHits ==
    [][tracker'.frame_idx = tracker.frame_idx + 1 =>
        \A j \in DOMAIN tracker'.tracks :
            LET t == tracker'.tracks[j]
                old == {i \in DOMAIN tracker.tracks :
                            tracker.tracks[i].track_id = t.track_id}
            IN t.last_seen_frame = tracker'.frame_idx =>
                  /\ old = {} => t.hits = 1
                  /\ \A i \in old : t.hits = tracker.tracks[i].hits + 1
                  /\ t.hits >= min_hits => t.state = "confirmed"]_vars

\* C32: a Frame that took a credit and ended in an Error reply gives the
\* credit back: whenever the handler is idle, awaiting the next message,
\* inflight is 0.
C32_IdleHandlerHoldsNoCredit ==
    w_pc = "idle" => inflight = 0

\* C33: when two connections await the same in-progress load of a model and
\* one of them closes, cancelling its load job, the other connection still
\* eventually receives InitOk or an Error for its Init: a connection whose
\* job awaits a running load that a job of another connection awaits too
\* gets its reply for that model, unless it closes or sends a later Init.
C33_OtherWaiterStillAnswered ==
    \A c \in Conns, p \in ModelPaths, n \in 1..MaxPoolInits :
        ( /\ pconn[c].state = "open"
          /\ pconn[c].inits = n
          /\ mm_loading_tasks[p].state = "running"
          /\ \E j \in pjobs : /\ j.conn = c /\ j.path = p /\ ~j.must_cancel
                              /\ j.at \in {"creator", "waiter"}
          /\ \E k \in pjobs : /\ k.conn # c /\ k.path = p /\ ~k.must_cancel
                              /\ k.at \in {"creator", "waiter"} )
        ~> ( \/ pconn[c].state # "open"
             \/ pconn[c].inits # n
             \/ /\ ~\E j \in pjobs : j.conn = c /\ j.path = p
                /\ Len(pconn[c].log) > 0
                /\ pconn[c].log[Len(pconn[c].log)] \in
                      {<<"InitOk", p>>, <<"Error:INTERNAL", p>>} )

\* C34: once a later Init on a connection has been answered with InitOk, a
\* load started by an earlier Init on that connection never changes the
\* active model and never produces another InitOk, also when the later Init
\* was served from the pool without loading: the end of a job that a later,
\* answered Init superseded leaves the connection's model and replies as
\* they are.
C34_EarlierLoadNeverAnswers ==
    [][\A j \in pjobs :
          ( /\ j.superseded
            /\ ~\E k \in pjobs' : k.conn = j.conn /\ k.path = j.path
                                  /\ k.superseded )
          => /\ pconn'[j.conn].model = pconn[j.conn].model
             /\ pconn'[j.conn].log = pconn[j.conn].log]_vars

\* C35: an Init on one connection never changes how another connection's
\* Frames are processed: a step that handles a message of connection A leaves
\* unchanged the model, the confidence threshold and the class filter that a
\* Frame of connection B is inferred with.
C35_InitLeavesOtherConnectionAlone ==
    [][\A c \in Conns :
          (\E d \in Conns \ {c} : iso_conn'[d].rx # iso_conn[d].rx) =>
              /\ iso_conn'[c].current_model_path = iso_conn[c].current_model_path
              /\ iso_conn'[c].class_filter_ids = iso_conn[c].class_filter_ids
              /\ iso_conn[c].state = "open" =>
                    iso_conf_threshold' = iso_conf_threshold]_vars

\* C36: every Frame received on a connection that stays open is answered by
\* exactly one message, a Result or an Error, never both and never none
\* (Heartbeat and InitOk messages aside): the step that handles a well-formed
\* Frame and leaves the connection open writes exactly one of them.
C36_OneReplyPerFrame ==
    [][( /\ s_rx' = s_rx + 1
         /\ s_last'.var = "frame"
         /\ s_last'.ver = PROTOCOL_VERSION
         /\ ~s_is_end(s_last')
         /\ s_pc' # "closed" )
       => Cardinality({i \in DOMAIN s_log' :
                          s_log'[i] \in {"Result", "Error:MODEL_NOT_READY",
                                         "Error:INVALID_FRAME", "Error:BAD_MESSAGE",
                                         "Error:INTERNAL"}}) = 1]_vars

\* C36 witness: with a model loaded, a Frame that does not decode was answered
\* with the Error alone and the connection is open for the next message.
C36_Witness ==
    /\ s_pc = "idle"
    /\ s_last.var = "frame"
    /\ s_last.fk = "corrupt"
    /\ current_model_path \in ModelPaths
    /\ s_log = <<"manage_session", "Error:INVALID_FRAME">>

\* C37: outbound messages are never interleaved on the socket: for every
\* interleaving of the connection's main loop, the model-load completion
\* callback and the keep-alive task, the bytes written form a sequence of
\* complete frames, each 4-byte length prefix immediately followed by exactly
\* that many payload bytes of the same message.
C37_FramesNeverInterleaved ==
    well_framed(sk_sock)

\* C37 witness: the keep-alive task was cancelled while suspended in its
\* write_frame, and the loop and the load callback are both suspended in
\* theirs, three frames being on the socket.
C37_Witness ==
    /\ sk_pc["main"] = "drain"
    /\ sk_pc["loader"] = "drain"
    /\ sk_pc["keepalive"] = "off"
    /\ sk_writes = 3
    /\ \E i \in DOMAIN sk_sock : sk_sock[i][1] = 2 /\ i > 6

\* C38: once a session has been finalized, its files are never modified again
\* by that connection, whatever Frames follow: no step creates, writes or
\* finalizes anything in the directory of a session that was finalized
\* before the step.
C38_FinalizedSessionUntouched ==
    [][\A i \in DOMAIN session_events' :
          session_events'[i][2] \notin sessions_finalized]_vars


\* C39: after each completed write_frame or finalize, index.json lists every
\* segment file of the session directory that holds records, and each listed
\* segment's count is the number of records in that file, also when the
\* session was finalized before and is open again.
C39_IndexMatchesSegmentFiles ==
    sw_op \in {"write_frame", "finalize"} =>
        /\ \A j \in DOMAIN seg_files :
              Len(seg_files[j]) > 0 => j \in DOMAIN index_json.segments
        /\ \A j \in DOMAIN index_json.segments :
              /\ j \in DOMAIN seg_files
              /\ index_json.segments[j].count = Len(seg_files[j])


\* C40: a write_frame whose frame id and timestamps are not below those of
\* the writes before it never goes to a segment before the current one,
\* whichever of ts_mono_ns and ts_utc_ns the frames carry.
C40_SegmentIndexNeverDecreases ==
    [][ \A frame_idx \in FrameIds, ts \in FrameStamps :
          ( /\ SW_WriteFrame(frame_idx, ts[1], ts[2])
            /\ current_segment_index # NoSegment
            /\ frame_idx >= latest_frame_idx
            /\ ts[1] # NoTs => ts[1] >= latest_mono_ns
            /\ ts[2] # NoTs => ts[2] >= latest_utc_ns )
          => current_segment_index' >= current_segment_index ]_vars

=============================================================================
